---- MODULE Spec2Model ----
(***************************************************************************)
(* Spreadsheet ingestion of src/src/components/FileUpload.tsx: header      *)
(* detection, column lookup, course reconciliation, student upsert, grade  *)
(* classification and batched grade writes against the Supabase store     *)
(* declared in src/supabase/migrations.                                    *)
(*                                                                         *)
(* Strings are sequences of one-character strings, so that trim(),         *)
(* toLowerCase(), toUpperCase(), includes() and the regular-expression     *)
(* replaces of the source are computed character by character.             *)
(***************************************************************************)
EXTENDS Integers, Sequences, FiniteSets, TLC

VARIABLES
    sheet,   \* the first worksheet of the selected file: a grid of cells
    store,   \* the Postgres tables courses, students, grades and the id source
    run,     \* per ingestion run: the locals of processExcelData and its position
    ui,      \* the component state: uploading, uploadStatus, progress
    probe    \* input and result of a single application of a pure step

vars == <<sheet, store, run, ui, probe>>

----------------------------------------------------------------------------
(* Characters and the string primitives of JavaScript used by the source.  *)

Uppers == <<"A", "B", "C", "D", "E", "F", "G", "H", "I", "J", "K", "L", "M", "N", "O", "P", "Q", "R", "S", "T", "U", "V", "W", "X", "Y", "Z">>
Lowers == <<"a", "b", "c", "d", "e", "f", "g", "h", "i", "j", "k", "l", "m", "n", "o", "p", "q", "r", "s", "t", "u", "v", "w", "x", "y", "z">>
Digits == {"0", "1", "2", "3", "4", "5", "6", "7", "8", "9"}
Puncts == {" ", ".", "+", "-", "*", "(", ")"}

UpperSet == {Uppers[i] : i \in 1..26}
LowerSet == {Lowers[i] : i \in 1..26}
Chars == UpperSet \cup LowerSet \cup Digits \cup Puncts

LowerMap ==
    [c \in Chars |-> IF c \in UpperSet
                     THEN Lowers[CHOOSE i \in 1..26 : Uppers[i] = c]
                     ELSE c]

UpperMap ==
    [c \in Chars |-> IF c \in LowerSet
                     THEN Uppers[CHOOSE i \in 1..26 : Lowers[i] = c]
                     ELSE c]

\* String.prototype.toLowerCase
toLowerCase(s) == [i \in 1..Len(s) |-> LowerMap[s[i]]]

\* String.prototype.toUpperCase
toUpperCase(s) == [i \in 1..Len(s) |-> UpperMap[s[i]]]

IsSpace(c) == c = " "

\* String.prototype.trim
trim(s) ==
    LET keep == {i \in 1..Len(s) : ~IsSpace(s[i])}
    IN  IF keep = {} THEN <<>>
        ELSE SubSeq(s,
                    CHOOSE i \in keep : \A j \in keep : i <= j,
                    CHOOSE i \in keep : \A j \in keep : j <= i)

\* String.prototype.includes(sub)
includes(s, sub) ==
    \E i \in 1..(Len(s) - Len(sub) + 1) : SubSeq(s, i, i + Len(sub) - 1) = sub

\* Array.prototype.includes(x) on an array of strings
arrayIncludes(arr, x) == \E i \in 1..Len(arr) : arr[i] = x

\* the value of a missing property; no string of characters equals it
Undefined == <<"undefined">>

\* JavaScript truthiness of a cell value: a non-empty string
Truthy(v) == v # Undefined /\ v # <<>>

\* String(v ?? '')
StringOrEmpty(v) == IF v = Undefined THEN <<>> ELSE v

Range(f) == {f[i] : i \in DOMAIN f}

----------------------------------------------------------------------------
(* Header resolver.                                                        *)

requiredColumns ==
  << <<"S", ".", "N", "o">>,
     <<"O", "f", "f", "i", "c", "e", " ", "N", "a", "m", "e">>,
     <<"R", "e", "g", "i", "s", "t", "e", "r", " ", "N", "o">>,
     <<"S", "t", "u", "d", "e", "n", "t", " ", "N", "a", "m", "e">>,
     <<"S", "e", "m", "e", "s", "t", "e", "r">>,
     <<"B", "a", "t", "c", "h">>,
     <<"D", "e", "g", "r", "e", "e">>,
     <<"B", "r", "a", "n", "c", "h", " ", "o", "f", " ", "S", "t", "u", "d", "y">>,
     <<"G", "r", "a", "d", "u", "a", "t", "i", "o", "n", " ", "T", "y", "p", "e">>,
     <<"C", "o", "u", "r", "s", "e", " ", "C", "o", "d", "e">>,
     <<"C", "o", "u", "r", "s", "e", " ", "T", "i", "t", "l", "e">>,
     <<"C", "r", "e", "d", "i", "t", "s">>,
     <<"G", "r", "a", "d", "e">>,
     <<"M", "o", "d", "e", " ", "O", "f", " ", "A", "t", "t", "e", "m", "p", "t">> >>

\* requiredHeaderHints: the expected labels, lower-cased
requiredHeaderHints == [i \in 1..Len(requiredColumns) |-> toLowerCase(requiredColumns[i])]

\* the score at which a scanned row is taken as the header row
scoreThreshold == 6

\* the number added to the start row to obtain the last scanned row
scanSpan == 10

\* A grid row is a sequence of cells; the empty string is a cell without a
\* value.  rowValues: the trimmed values of the cells that have one.
rowValues(row) ==
    [i \in 1..Len(row) |-> trim(row[i])]

\* score of one row: the number of hints found among the lower-cased values
score(row) ==
    LET normalized == {toLowerCase(v) : v \in Range(rowValues(row)) \ {<<>>}}
    IN  Cardinality({h \in 1..Len(requiredHeaderHints) :
                        requiredHeaderHints[h] \in normalized})

\* Row indices are 0-based offsets from the first row of the sheet's used
\* range (range.s.r); row r of the source is grid[r + 1].
lastRow(grid) == Len(grid) - 1

maxScan(grid) == IF scanSpan <= lastRow(grid) THEN scanSpan ELSE lastRow(grid)

\* the scan with the threshold taken as a strict bound
detectHeaderRowStrict(grid) ==
    LET hits == {r \in 0..maxScan(grid) : score(grid[r + 1]) > scoreThreshold}
    IN  IF hits = {} THEN 0
        ELSE CHOOSE r \in hits : \A q \in hits : r <= q

detectHeaderRow(grid) ==
    LET hits == {r \in 0..maxScan(grid) : score(grid[r + 1]) >= scoreThreshold}
    IN  IF hits = {} THEN 0
        ELSE CHOOSE r \in hits : \A q \in hits : r <= q

----------------------------------------------------------------------------
(* Grade classifier.                                                       *)

passingGrades ==
  << <<"O">>, <<"A", "+">>, <<"A">>, <<"B", "+">>, <<"B">>, <<"C", "+">>, <<"C">> >>

failingGrades ==
  << <<"D">>,
     <<"F">>,
     <<"F", "a", "i", "l">>,
     <<"F", "A", "I", "L">>,
     <<"f", "a", "i", "l">>,
     <<"U">>,
     <<"R", "A">>,
     <<"A", "b">>,
     <<"A", "B">>,
     <<"a", "b">>,
     <<"A", "b", "s", "e", "n", "t">>,
     <<"A", "B", "S", "E", "N", "T">>,
     <<"W">>,
     <<"I">>,
     <<"W", "h">>,
     <<"W", "H">> >>

\* the literal list of the current uploader's pass test
currentFailingGrades ==
  << <<"F">>, <<"A", "B">>, <<"A", "b">>, <<"a", "b">>, <<"W", "H">>, <<"W", "h">>, <<"w", "h">> >>

\* earlier uploader: passing set, then failing set, then substring test
classifyThreeTier(grade) ==
    IF arrayIncludes(passingGrades, grade) THEN TRUE
    ELSE IF arrayIncludes(failingGrades, grade) THEN FALSE
    ELSE ~(\E i \in 1..Len(failingGrades) :
              includes(toLowerCase(grade), toLowerCase(failingGrades[i])))

\* current uploader: the upper-cased token is looked up in the literal list
isPassed(gradeStr) == ~arrayIncludes(currentFailingGrades, toUpperCase(gradeStr))

NoId == 0

sRegular == <<"R", "e", "g", "u", "l", "a", "r">>

\* the row step without the test of the course id
gradeRowNoCourseTest(studentId, courseId, grade, modeOfAttempt) ==
    IF studentId # NoId /\ Truthy(grade) /\ trim(grade) # <<>>
    THEN [push |-> << [student_id |-> studentId, course_id |-> courseId,
                       grade |-> trim(grade), is_passed |-> isPassed(trim(grade)),
                       mode_of_attempt |-> IF Truthy(modeOfAttempt)
                                           THEN modeOfAttempt ELSE sRegular] >>,
          missingStudentId |-> 0, missingCourseId |-> 0, missingOrEmptyGrade |-> 0]
    ELSE [push |-> <<>>, missingStudentId |-> IF studentId = NoId THEN 1 ELSE 0,
          missingCourseId |-> 0, missingOrEmptyGrade |-> IF ~Truthy(grade) THEN 1 ELSE 0]

\* The body of the grade loop for one row, current uploader: the payload
\* pushed to gradesToUpsert (none or one) and the increments of the three
\* diagnostic counters.
\* the grade row whose pass flag also looks at the attempt: an attempt that is
\* not regular is recorded as not passed
gradeRowByAttempt(studentId, courseId, grade, modeOfAttempt) ==
    IF studentId # NoId /\ courseId # NoId /\ Truthy(grade)
    THEN LET gradeStr == trim(grade)
         IN  IF gradeStr # <<>>
             THEN [push |-> << [student_id |-> studentId,
                                course_id |-> courseId,
                                grade |-> gradeStr,
                                is_passed |-> isPassed(gradeStr) /\ ~Truthy(modeOfAttempt),
                                mode_of_attempt |-> IF Truthy(modeOfAttempt)
                                                    THEN modeOfAttempt ELSE sRegular] >>,
                   missingStudentId |-> 0, missingCourseId |-> 0, missingOrEmptyGrade |-> 0]
             ELSE [push |-> <<>>,
                   missingStudentId |-> 0, missingCourseId |-> 0, missingOrEmptyGrade |-> 1]
    ELSE [push |-> <<>>,
          missingStudentId |-> IF studentId = NoId THEN 1 ELSE 0,
          missingCourseId |-> IF courseId = NoId THEN 1 ELSE 0,
          missingOrEmptyGrade |-> IF ~Truthy(grade) THEN 1 ELSE 0]

gradeRow(studentId, courseId, grade, modeOfAttempt) ==
    IF studentId # NoId /\ courseId # NoId /\ Truthy(grade)
    THEN LET gradeStr == trim(grade)
         IN  IF gradeStr # <<>>
             THEN [push |-> << [student_id |-> studentId,
                                course_id |-> courseId,
                                grade |-> gradeStr,
                                is_passed |-> isPassed(gradeStr),
                                mode_of_attempt |-> IF Truthy(modeOfAttempt)
                                                    THEN modeOfAttempt ELSE sRegular] >>,
                   missingStudentId |-> 0, missingCourseId |-> 0, missingOrEmptyGrade |-> 0]
             ELSE [push |-> <<>>,
                   missingStudentId |-> 0, missingCourseId |-> 0, missingOrEmptyGrade |-> 1]
    ELSE [push |-> <<>>,
          missingStudentId |-> IF studentId = NoId THEN 1 ELSE 0,
          missingCourseId |-> IF courseId = NoId THEN 1 ELSE 0,
          missingOrEmptyGrade |-> IF ~Truthy(grade) THEN 1 ELSE 0]

----------------------------------------------------------------------------
(* Sheets: the rows a worksheet is built from.  Every row has one cell per  *)
(* expected column, in the order of requiredColumns.                        *)

NumColumns == Len(requiredColumns)

sReport == <<"G", "r", "a", "d", "e", " ", "R", "e", "p", "o", "r", "t">>
sR1 == <<"R", "1">>
sR2 == <<"R", "2">>
sR2pad == <<" ", "R", "2", " ">>
sAlice == <<"A", "l", "i", "c", "e">>
sBob == <<"B", "o", "b">>
s21CSC204J == <<"2", "1", "C", "S", "C", "2", "0", "4", "J">>
s21CSC205P == <<"2", "1", "C", "S", "C", "2", "0", "5", "P">>
s21CSC206T == <<"2", "1", "C", "S", "C", "2", "0", "6", "T">>
sLooseCode == <<"2", "1", "c", "s", "c", " ", "2", "0", "4", "-", "j">>
sArrear == <<"A", "r", "r", "e", "a", "r">>
sTitle == <<"D", "B", "M", "S">>
sBlank == <<" ", " ">>

\* a title or banner line above the header: one text cell, the rest empty
BannerRow == [i \in 1..NumColumns |-> IF i = 1 THEN sReport ELSE <<>>]

\* a header row carrying the first n expected labels; the others are decorated
HeaderWith(n) ==
    [i \in 1..NumColumns |-> IF i <= n THEN requiredColumns[i]
                             ELSE requiredColumns[i] \o <<"*">>]

\* the expected labels in other capitalisation and with surrounding blanks
HeaderLoose ==
    [i \in 1..NumColumns |-> IF i % 2 = 1 THEN toUpperCase(requiredColumns[i])
                             ELSE <<" ">> \o toLowerCase(requiredColumns[i]) \o <<" ", " ">>]

\* every expected label but Grade, which is spelled differently
HeaderNoGrade ==
    [i \in 1..NumColumns |-> IF i = 13 THEN requiredColumns[i] \o <<"s">>
                             ELSE requiredColumns[i]]

DataRow(reg, name, code, title, credits, grade, mode) ==
    << <<"1">>, <<"E", "T">>, reg, name, <<"3">>, <<"2", "1">>, <<"B", "T">>,
       <<"C", "S", "E">>, <<"U", "G">>, code, title, credits, grade, mode >>

RowA == DataRow(sR1, sAlice, s21CSC204J, sTitle, <<"3">>, <<"A", "+">>, sRegular)
RowB == DataRow(sR1, sAlice, s21CSC205P, <<>>, <<>>, <<"F">>, <<>>)
RowC == DataRow(<<>>, <<>>, s21CSC206T, <<>>, <<>>, <<"O">>, <<>>)
RowD == DataRow(sR2pad, sBob, sLooseCode, sTitle, <<"4">>, <<"D">>, sArrear)
RowE == DataRow(sR2, <<>>, <<>>, <<>>, <<>>, sBlank, <<>>)
RowF == DataRow(sR1, sAlice, s21CSC204J, <<>>, <<>>, <<>>, sRegular)

RowPool == {RowA, RowB, RowC, RowD, RowE, RowF}

\* the largest number of data rows of an ingested sheet
MaxRecords == 3

\* the largest number of rows of a sheet given to the header resolver alone
MaxGridRows == 12

SeqsUpTo(S, n) == UNION {[1..k -> S] : k \in 0..n}

\* sheets ingested by a run: the expected header followed by data rows, and
\* sheets with a banner line, other header spellings or no data
RunSheets ==
    {<<HeaderWith(NumColumns)>> \o rows : rows \in SeqsUpTo(RowPool, MaxRecords)}
    \cup {<<BannerRow, HeaderLoose>> \o rows : rows \in SeqsUpTo({RowA, RowD}, 1)}
    \cup {<<HeaderNoGrade, RowA>>, <<BannerRow, HeaderWith(5), RowA>>,
          <<BannerRow, BannerRow>>}

\* the largest number of data rows of a sheet that is ingested twice
MaxRecordsTwice == 2

TwiceSheets ==
    {<<HeaderWith(NumColumns)>> \o rows :
        rows \in SeqsUpTo({RowA, RowB, RowC, RowD}, MaxRecordsTwice) \ {<<>>}}

\* the largest number of data rows of a sheet ingested by two overlapping runs
MaxRecordsRace == 1

RaceSheets ==
    {<<HeaderWith(NumColumns)>> \o rows :
        rows \in SeqsUpTo({RowA, RowB, RowD}, MaxRecordsRace) \ {<<>>}}

\* the largest number of data rows of a sheet ingested into the seeded store
MaxRecordsSeeded == 2

SeededSheets ==
    {<<HeaderWith(NumColumns)>> \o rows :
        rows \in SeqsUpTo({RowA, RowB, RowC, RowD, RowF}, MaxRecordsSeeded) \ {<<>>}}

HeaderKinds == {BannerRow, HeaderWith(5), HeaderWith(6), HeaderLoose}

\* sheets for the header resolver: banner lines with up to two other rows
HeaderSheets ==
    {[i \in 1..n |-> IF i = p THEN k1 ELSE IF i = q THEN k2 ELSE BannerRow] :
        <<n, p, q, k1, k2>> \in
            {t \in (1..MaxGridRows) \X (1..MaxGridRows) \X (1..MaxGridRows)
                     \X HeaderKinds \X HeaderKinds :
                t[2] <= t[3] /\ t[3] <= t[1]}}

----------------------------------------------------------------------------
(* Sheet to records, column lookup and validation.                          *)

IsBlankRow(row) == \A i \in 1..Len(row) : row[i] = <<>>

\* XLSX.utils.sheet_to_json(worksheet, {range: headerRowIndex, header: 1,
\* defval: '', blankrows: false}): the rows from the header row on, blank
\* rows left out
sheetToJson(grid, headerRowIndex) ==
    SelectSeq(SubSeq(grid, headerRowIndex + 1, Len(grid)), LAMBDA row : ~IsBlankRow(row))

\* the test that lets a header row alone through
tooFewRowsHeaderOnly(jsonData) == Len(jsonData) < 1

\* jsonData.length < 2: no header row followed by a data row
tooFewRows(jsonData) == Len(jsonData) < 2

\* detectedHeaders: the cells of the first row, trimmed
detectHeaders(jsonData) == [i \in 1..Len(jsonData[1]) |-> trim(jsonData[1][i])]

\* Object.keys(firstRecord): the distinct headers in order of first occurrence
actualColumnsOf(headers) ==
    SelectSeq([i \in 1..Len(headers) |->
                  IF \E j \in 1..(i - 1) : headers[j] = headers[i] THEN Undefined
                  ELSE headers[i]],
              LAMBDA h : h # Undefined)

\* the validation with the last two required columns left off the list
missingColumnsOfShortList(actualColumns) ==
    SelectSeq(SubSeq(requiredColumns, 1, 12),
              LAMBDA requiredCol :
                  ~\E i \in 1..Len(actualColumns) :
                      toLowerCase(trim(actualColumns[i])) = toLowerCase(requiredCol))

\* the required columns no actual column equals, trimmed and lower-cased
missingColumnsOf(actualColumns) ==
    SelectSeq(requiredColumns,
              LAMBDA requiredCol :
                  ~\E i \in 1..Len(actualColumns) :
                      toLowerCase(trim(actualColumns[i])) = toLowerCase(requiredCol))

\* getColumnValue(record, columnName): a record is a row read under the
\* detected headers; the first key that matches names the property, whose
\* value is the last cell assigned under that key
getColumnValue(headers, row, columnName) ==
    LET matching == {i \in 1..Len(headers) :
                        toLowerCase(trim(headers[i])) = toLowerCase(columnName)}
    IN  IF matching = {} THEN Undefined
        ELSE LET first == CHOOSE i \in matching : \A j \in matching : i <= j
                 same == {j \in 1..Len(headers) : headers[j] = headers[first]}
                 last == CHOOSE j \in same : \A k \in same : k <= j
             IN  IF last <= Len(row) THEN row[last] ELSE Undefined

\* A record is kept as the values getColumnValue returns for the expected
\* columns, in the order of requiredColumns: record[c] is
\* getColumnValue(record, requiredColumns[c]).  The keys of all records of a
\* run are the detected headers, so the lookup is done once per row.
recordOf(headers, row) ==
    [c \in 1..Len(requiredColumns) |-> getColumnValue(headers, row, requiredColumns[c])]

recordsOf(headers, rows) == [k \in 1..Len(rows) |-> recordOf(headers, rows[k])]

\* positions of the columns in requiredColumns
OfficeName == 2
RegisterNo == 3
StudentName == 4
Semester == 5
Batch == 6
Degree == 7
BranchOfStudy == 8
GraduationType == 9
CourseCode == 10
CourseTitle == 11
Credits == 12
Grade == 13
ModeOfAttempt == 14

IsAZ09(c) == c \in UpperSet \/ c \in Digits

\* the second replace without the g flag: only the first character that is
\* not A-Z or 0-9 is removed
normalizeCourseCodeFirstOnly(code) ==
    LET s == SelectSeq(toUpperCase(StringOrEmpty(code)), LAMBDA c : ~IsSpace(c))
        bad == {i \in 1..Len(s) : ~IsAZ09(s[i])}
    IN  IF bad = {} THEN s
        ELSE LET first == CHOOSE i \in bad : \A j \in bad : i <= j
             IN  SubSeq(s, 1, first - 1) \o SubSeq(s, first + 1, Len(s))

\* normalizeCourseCode: upper-case, remove whitespace, remove what is not A-Z0-9
normalizeCourseCode(code) ==
    SelectSeq(SelectSeq(toUpperCase(StringOrEmpty(code)), LAMBDA c : ~IsSpace(c)), IsAZ09)

\* normalizeRegisterNumber
normalizeRegisterNumber(reg) == trim(StringOrEmpty(reg))

----------------------------------------------------------------------------
(* Reference reconciler: the course codes of the batch and their details.  *)

EmptyMap == <<>>

MapGet(m, k) == IF k \in DOMAIN m THEN m[k] ELSE NoId

MapSet(m, k, v) == (k :> v) @@ m

RECURSIVE collectCoursesNoBackfill(_, _, _)
\* the collection that keeps what the first row of a code says
collectCoursesNoBackfill(records, k, acc) ==
    IF k > Len(records) THEN acc
    ELSE LET courseCode == normalizeCourseCode(records[k][CourseCode])
             next ==
                 IF courseCode = <<>> \/ courseCode \in DOMAIN acc.courseMap THEN acc
                 ELSE [codes |-> Append(acc.codes, courseCode),
                       courseMap |-> MapSet(acc.courseMap, courseCode,
                                            [title |-> records[k][CourseTitle],
                                             credits |-> records[k][Credits]])]
         IN  collectCoursesNoBackfill(records, k + 1, next)

RECURSIVE collectCourses(_, _, _)
\* records.forEach over rows k..Len(records): acc holds allCourseCodesSet (in
\* insertion order) and courseMap
collectCourses(records, k, acc) ==
    IF k > Len(records) THEN acc
    ELSE LET record == records[k]
             courseCode == normalizeCourseCode(record[CourseCode])
             courseTitle == record[CourseTitle]
             credits == record[Credits]
             next ==
                 IF courseCode = <<>> THEN acc
                 ELSE IF courseCode \notin DOMAIN acc.courseMap
                 THEN [codes |-> Append(acc.codes, courseCode),
                       courseMap |-> MapSet(acc.courseMap, courseCode,
                                            [title |-> courseTitle, credits |-> credits])]
                 ELSE LET existing == acc.courseMap[courseCode]
                          title2 == IF ~Truthy(existing.title) /\ Truthy(courseTitle)
                                    THEN courseTitle ELSE existing.title
                          credits2 == IF existing.credits = Undefined /\ credits # Undefined
                                      THEN credits ELSE existing.credits
                      IN  [codes |-> acc.codes,
                           courseMap |-> MapSet(acc.courseMap, courseCode,
                                                [title |-> title2, credits |-> credits2])]
         IN  collectCourses(records, k + 1, next)

\* the rows upserted for the codes not found in the store
coursesToInsert(newCourses, courseMap) ==
    [i \in 1..Len(newCourses) |->
        LET code == newCourses[i]
            info == IF code \in DOMAIN courseMap THEN courseMap[code]
                    ELSE [title |-> Undefined, credits |-> Undefined]
        IN  [code |-> code,
             name |-> IF Truthy(info.title) THEN info.title ELSE code,
             credits |-> info.credits]]

\* the rows of the fallback insert: every requested code under its own name
fallbackInsert(allCourseCodes) ==
    [i \in 1..Len(allCourseCodes) |->
        [code |-> allCourseCodes[i], name |-> allCourseCodes[i], credits |-> Undefined]]

----------------------------------------------------------------------------
(* Entity upserter: the student rows of the batch.                          *)

studentsToUpsert(records) ==
    [k \in 1..Len(records) |->
        [register_number |-> normalizeRegisterNumber(records[k][RegisterNo]),
         name |-> records[k][StudentName],
         semester |-> records[k][Semester],
         batch |-> records[k][Batch],
         degree |-> records[k][Degree],
         office_name |-> records[k][OfficeName],
         branch_of_study |-> records[k][BranchOfStudy],
         graduation_type |-> records[k][GraduationType]]]

\* the reduce that keeps, per register number, the last student in file order
uniqueStudentsLastWins(students) ==
    SelectSeq([k \in 1..Len(students) |->
                  IF \E j \in (k + 1)..Len(students) :
                        students[j].register_number = students[k].register_number
                  THEN [students[k] EXCEPT !.register_number = Undefined]
                  ELSE students[k]],
              LAMBDA st : st.register_number # Undefined)

\* the reduce that keeps, per register number, the first student in file order
uniqueStudentsOf(students) ==
    SelectSeq([k \in 1..Len(students) |->
                  IF \E j \in 1..(k - 1) :
                        students[j].register_number = students[k].register_number
                  THEN [students[k] EXCEPT !.register_number = Undefined]
                  ELSE students[k]],
              LAMBDA st : st.register_number # Undefined)

----------------------------------------------------------------------------
(* Grade processing: one pass over the records.                             *)

maxMissingExamples == 5

RECURSIVE processGrades(_, _, _, _, _)
processGrades(records, studentIdMap, courseIdMap, k, acc) ==
    IF k > Len(records) THEN acc
    ELSE LET record == records[k]
             registerNo == normalizeRegisterNumber(record[RegisterNo])
             courseCode == normalizeCourseCode(record[CourseCode])
             grade == record[Grade]
             modeOfAttempt == record[ModeOfAttempt]
             studentId == MapGet(studentIdMap, registerNo)
             courseId == MapGet(courseIdMap, courseCode)
             row == gradeRow(studentId, courseId, grade, modeOfAttempt)
             next ==
                 [gradesToUpsert |-> acc.gradesToUpsert \o row.push,
                  missingStudentId |-> acc.missingStudentId + row.missingStudentId,
                  missingCourseId |-> acc.missingCourseId + row.missingCourseId,
                  missingOrEmptyGrade |-> acc.missingOrEmptyGrade + row.missingOrEmptyGrade,
                  missingExamples |->
                      IF row.missingCourseId > 0 /\ Len(acc.missingExamples) < maxMissingExamples
                      THEN Append(acc.missingExamples,
                                  [raw |-> record[CourseCode], normalized |-> courseCode])
                      ELSE acc.missingExamples]
         IN  processGrades(records, studentIdMap, courseIdMap, k + 1, next)

NoGrades ==
    [gradesToUpsert |-> <<>>, missingStudentId |-> 0, missingCourseId |-> 0,
     missingOrEmptyGrade |-> 0, missingExamples |-> <<>>]

----------------------------------------------------------------------------
(* The store: the tables courses, students and grades with their unique    *)
(* keys, as the requests of the uploader see them.                         *)

EmptyStore == [courses |-> {}, students |-> {}, grades |-> {}, nextId |-> 1]

\* .from('courses').select(...).in('code', codes)
selectCourses(st, codes) == {c \in st.courses : c.code \in Range(codes)}

\* .from('students').select(...).in('register_number', registerNumbers)
selectStudents(st, registerNumbers) ==
    {x \in st.students : x.register_number \in Range(registerNumbers)}

\* set_course_title_trigger, before insert or update on courses: a title that
\* is null or empty is set to the name
titleFromName(title, name) == IF Truthy(title) THEN title ELSE name

RECURSIVE upsertCoursesMerge(_, _, _)
\* the upsert without ignoreDuplicates: a row whose code is present replaces
\* the name and the credits of that course
upsertCoursesMerge(st, rows, k) ==
    IF k > Len(rows) THEN st
    ELSE LET old == {c \in st.courses : c.code = rows[k].code}
         IN  IF old # {}
             THEN upsertCoursesMerge(
                      [st EXCEPT !.courses =
                          (@ \ old) \cup {[c EXCEPT !.name = rows[k].name,
                                                    !.credits = rows[k].credits] :
                                           c \in old}],
                      rows, k + 1)
             ELSE upsertCoursesMerge(
                      [st EXCEPT !.courses =
                          @ \cup {[id |-> st.nextId, code |-> rows[k].code,
                                   name |-> rows[k].name,
                                   title |-> titleFromName(Undefined, rows[k].name),
                                   credits |-> rows[k].credits]},
                                 !.nextId = @ + 1],
                      rows, k + 1)

RECURSIVE upsertCoursesIgnore(_, _, _)
\* upsert(rows, {onConflict: 'code', ignoreDuplicates: true}): a row whose code
\* is present is left out, the others are inserted under new ids
upsertCoursesIgnore(st, rows, k) ==
    IF k > Len(rows) THEN st
    ELSE IF \E c \in st.courses : c.code = rows[k].code
    THEN upsertCoursesIgnore(st, rows, k + 1)
    ELSE upsertCoursesIgnore(
             [st EXCEPT !.courses = @ \cup {[id |-> st.nextId, code |-> rows[k].code,
                                             name |-> rows[k].name,
                                             title |-> titleFromName(Undefined, rows[k].name),
                                             credits |-> rows[k].credits]},
                        !.nextId = @ + 1],
             rows, k + 1)

RECURSIVE insertStudentRows(_, _, _)
\* a plain insert of the student rows: every row becomes a new student
insertStudentRows(st, rows, k) ==
    IF k > Len(rows) THEN st
    ELSE insertStudentRows(
             [st EXCEPT !.students = @ \cup {[id |-> st.nextId, row |-> rows[k],
                                              register_number |-> rows[k].register_number]},
                        !.nextId = @ + 1],
             rows, k + 1)

RECURSIVE upsertStudentRows(_, _, _)
\* upsert(rows, {onConflict: 'register_number'}): a row whose register number
\* is present replaces that student's attributes, the others are inserted
upsertStudentRows(st, rows, k) ==
    IF k > Len(rows) THEN st
    ELSE LET old == {x \in st.students : x.register_number = rows[k].register_number}
         IN  IF old # {}
             THEN upsertStudentRows(
                      [st EXCEPT !.students =
                          (@ \ old) \cup {[id |-> x.id, row |-> rows[k],
                                           register_number |-> rows[k].register_number] :
                                          x \in old}],
                      rows, k + 1)
             ELSE upsertStudentRows(
                      [st EXCEPT !.students =
                          @ \cup {[id |-> st.nextId, row |-> rows[k],
                                   register_number |-> rows[k].register_number]},
                                 !.nextId = @ + 1],
                      rows, k + 1)

\* a plain insert of the course rows: a row whose code is present violates
\* the unique key and the statement is rejected
coursesRejectedOnConflict(st, rows) ==
    \E k \in 1..Len(rows) : \E c \in st.courses : c.code = rows[k].code

\* whether the courses upsert is rejected for its rows: with ignoreDuplicates
\* a row whose code is present is skipped and the statement goes through
coursesRejected(st, rows) == FALSE

GradeKey(g) == <<g.student_id, g.course_id>>

\* two rows of one upsert under the same (student_id, course_id): the
\* statement is rejected as a whole
hasDuplicateKeys(batch) ==
    Cardinality({GradeKey(batch[i]) : i \in 1..Len(batch)}) < Len(batch)

\* upsert(batch, {onConflict: 'student_id,course_id'}) of the rows k.. of a
\* batch without duplicate keys: a row whose key is present replaces the
\* grade, flag and mode of that record, the others are inserted under new ids
\* in the order of the batch
upsertGradeRows(st, batch, k) ==
    LET present == {GradeKey(g) : g \in st.grades}
        fresh == SelectSeq([i \in 1..(Len(batch) - k + 1) |-> i + k - 1],
                           LAMBDA i : GradeKey(batch[i]) \notin present)
        sent == {GradeKey(batch[i]) : i \in k..Len(batch)}
        rowOf(key) == batch[CHOOSE i \in k..Len(batch) : GradeKey(batch[i]) = key]
        kept == {g \in st.grades : GradeKey(g) \notin sent}
        updated == {[id |-> g.id, student_id |-> g.student_id,
                     course_id |-> g.course_id,
                     grade |-> rowOf(GradeKey(g)).grade,
                     is_passed |-> rowOf(GradeKey(g)).is_passed,
                     mode_of_attempt |-> rowOf(GradeKey(g)).mode_of_attempt] :
                    g \in st.grades \ kept}
        inserted == {[id |-> st.nextId + p - 1,
                      student_id |-> batch[fresh[p]].student_id,
                      course_id |-> batch[fresh[p]].course_id,
                      grade |-> batch[fresh[p]].grade,
                      is_passed |-> batch[fresh[p]].is_passed,
                      mode_of_attempt |-> batch[fresh[p]].mode_of_attempt] :
                     p \in 1..Len(fresh)}
    IN  [st EXCEPT !.grades = kept \cup updated \cup inserted,
                   !.nextId = @ + Len(fresh)]

sDAA == <<"D", "E", "S", "I", "G", "N", " ", "A", "N", "D", " ", "A", "N", "A", "L", "Y", "S", "I", "S", " ", "O", "F", " ", "A", "L", "G", "O", "R", "I", "T", "H", "M", "S">>
sDBMSLong == <<"D", "A", "T", "A", "B", "A", "S", "E", " ", "M", "A", "N", "A", "G", "E", "M", "E", "N", "T", " ", "S", "Y", "S", "T", "E", "M", "S">>

\* the store after the course data of the schema script was inserted, with one
\* more course that an upload created without title and credits
SeededStore ==
    [courses |-> {[id |-> 1, code |-> s21CSC204J, name |-> sDAA, title |-> sDAA,
                   credits |-> <<"4">>],
                  [id |-> 2, code |-> s21CSC205P, name |-> sDBMSLong, title |-> sDBMSLong,
                   credits |-> <<"4">>],
                  [id |-> 3, code |-> s21CSC206T, name |-> s21CSC206T, title |-> s21CSC206T,
                   credits |-> Undefined]},
     students |-> {}, grades |-> {}, nextId |-> 4]

\* How the store answers one request.  The row-level security policies are
\* evaluated per request: a read by a principal they do not admit returns no
\* rows and no error ("hidden"); any request can fail with an error.
ReadOutcomes == {"ok", "error", "hidden"}
WriteOutcomes == {"ok", "error"}

\* testConnection() reads a count and looks only at the error
TestOutcomes == {"ok", "error"}

----------------------------------------------------------------------------
(* The state of a run and of the component.                                *)

Runs == {1, 2}

batchSize == 100
gradeBatchSize == 500

\* index % 100 === 0: the records between two progress reports of the grade pass
progressEvery == 100

\* the batch number counted from zero
batchNumberFromZero(i, size) == i \div size

\* Math.floor(i / size) + 1: the number of the batch that starts at index i
batchNumber(i, size) == (i \div size) + 1

NoError == [text |-> "", n |-> 0, missing |-> <<>>, found |-> <<>>]

Err(text, n) == [text |-> text, n |-> n, missing |-> <<>>, found |-> <<>>]

Status(text, n, m) ==
    [prefix |-> "", text |-> text, n |-> n, m |-> m, missing |-> <<>>, found |-> <<>>]

\* setUploadStatus(`Error: ${error.message}`)
ErrorStatus(err) ==
    [prefix |-> "Error: ", text |-> err.text, n |-> err.n, m |-> 0,
     missing |-> err.missing, found |-> err.found]

IdleRun ==
    [pc |-> "idle", headerRowIndex |-> 0,
     records |-> <<>>, allCourseCodes |-> <<>>, courseMap |-> EmptyMap,
     newCourses |-> <<>>, uniqueStudents |-> <<>>, studentIdMap |-> EmptyMap,
     courseIdMap |-> EmptyMap, grades |-> NoGrades, i |-> 0, error |-> NoError,
     writes |-> <<>>, faults |-> 0, errorAt |-> <<>>, reported |-> <<>>, lookups |-> <<>>,
     timer |-> FALSE,
     storeAtEnd |-> EmptyStore]

IdleUi == [uploading |-> FALSE, uploadStatus |-> Status("", 0, 0), progress |-> 0]

NoProbe == [op |-> "none"]

Terminal == {"done", "failed"}

\* a value given to setProgress: num / den, kept as a fraction because the
\* loops report 60 + (i / length) * 5 and the like
Frac(num, den) == [num |-> num, den |-> den]

Whole(v) == Frac(v, 1)

\* batchProgress = 60 + (i / uniqueStudents.length) * 5
batchProgress(i, n) == Frac(60 * n + i * 5, n)

\* the grade write progress without the division by the number of grades
gradeProgressUnscaled(i, n) == Whole(90 + i * 10)

\* gradeProgress = 90 + (i / gradesToUpsert.length) * 10
gradeProgress(i, n) == Frac(90 * n + i * 10, n)

\* the setProgress calls of the try block of a run, in order
Reported(rr, values) == [rr EXCEPT !.reported = @ \o values]

\* the catch block: the error is shown and the component leaves the upload
Failed(rr, err) == [rr EXCEPT !.pc = "failed", !.error = err]

FailedUi(err) == [uploading |-> FALSE, uploadStatus |-> ErrorStatus(err), progress |-> 0]

\* the answer of the store to a request of run rr: faults counts the answers
\* that were not the rows asked for, errorAt lists the steps whose request
\* came back with an error
Fault(rr, outcome) ==
    [rr EXCEPT !.faults = IF outcome = "ok" THEN @ ELSE @ + 1,
               !.errorAt = IF outcome = "error" THEN Append(@, rr.pc) ELSE @]

\* the write requests a run has issued: the rows sent, whether the store failed
\* on its own account (answer), and whether the write went through
Logged(rr, table, rows, answer, outcome) ==
    [rr EXCEPT !.writes = Append(@, [table |-> table, rows |-> rows,
                                     fault |-> answer = "error", ok |-> outcome = "ok"])]

----------------------------------------------------------------------------
(* processExcelData, one action per stretch of code between two awaits.    *)

Min(a, b) == IF a <= b THEN a ELSE b

\* handleFileSelect / handleDrop: a file is chosen and processExcelData runs up
\* to its first await.  The file input is disabled while uploading is true; the
\* drop zone is not.
Begin(r, via) ==
    /\ run[r].pc = "idle"
    /\ via = "select" => ~ui.uploading
    /\ run' = [run EXCEPT ![r] = [Reported(@, <<Whole(0)>>) EXCEPT !.pc = "testConnection"]]
    /\ ui' = [uploading |-> TRUE,
              uploadStatus |-> Status("Testing database connection...", 0, 0),
              progress |-> 0]
    /\ UNCHANGED <<sheet, store, probe>>

\* await testConnection(), then the file-name test, up to file.arrayBuffer()
TestConnection(r) ==
    /\ run[r].pc = "testConnection"
    /\ \E outcome \in TestOutcomes, nameOk \in BOOLEAN :
         LET rr == Fault(run[r], outcome)
         IN  IF outcome = "error"
             THEN /\ run' = [run EXCEPT ![r] = Failed(rr, Err("Cannot connect to database", 0))]
                  /\ ui' = FailedUi(Err("Cannot connect to database", 0))
             ELSE IF ~nameOk
             THEN /\ run' = [run EXCEPT ![r] = Failed(rr, Err("Please upload a valid Excel file", 0))]
                  /\ ui' = FailedUi(Err("Please upload a valid Excel file", 0))
             ELSE /\ run' = [run EXCEPT ![r] = [rr EXCEPT !.pc = "readFile"]]
                  /\ ui' = [ui EXCEPT !.uploadStatus = Status("Reading Excel file...", 0, 0)]
    /\ UNCHANGED <<sheet, store, probe>>

\* from the file's bytes to the first store request of the run: header
\* detection, records, column validation, course collection
ReadFile(r) ==
    /\ run[r].pc = "readFile"
    /\ LET headerRowIndex == detectHeaderRow(sheet)
           jsonData == sheetToJson(sheet, headerRowIndex)
       IN  IF tooFewRows(jsonData)
           THEN /\ run' = [run EXCEPT ![r] =
                              Failed([Reported(@, <<Whole(10)>>) EXCEPT
                                          !.headerRowIndex = headerRowIndex],
                                     Err("Could not detect data rows in the Excel file.", 0))]
                /\ ui' = FailedUi(Err("Could not detect data rows in the Excel file.", 0))
           ELSE LET detectedHeaders == detectHeaders(jsonData)
                    records == recordsOf(detectedHeaders, Tail(jsonData))
                    actualColumns == actualColumnsOf(detectedHeaders)
                    missingColumns == missingColumnsOf(actualColumns)
                    rr == [Reported(run[r], <<Whole(10), Whole(20)>>) EXCEPT
                               !.headerRowIndex = headerRowIndex,
                               !.records = records]
                IN  IF Len(records) = 0
                    THEN /\ run' = [run EXCEPT ![r] = Failed(rr, Err("Excel file is empty", 0))]
                         /\ ui' = FailedUi(Err("Excel file is empty", 0))
                    ELSE IF Len(missingColumns) > 0
                    THEN LET err == [text |-> "Missing required columns", n |-> 0,
                                     missing |-> missingColumns, found |-> actualColumns]
                         IN  /\ run' = [run EXCEPT ![r] = Failed(rr, err)]
                             /\ ui' = FailedUi(err)
                    ELSE LET collected == collectCourses(records, 1,
                                              [codes |-> <<>>, courseMap |-> EmptyMap])
                         IN  /\ run' = [run EXCEPT ![r] =
                                           [Reported(rr, <<Whole(30)>>) EXCEPT
                                                      !.allCourseCodes = collected.codes,
                                                      !.courseMap = collected.courseMap,
                                                      !.pc = "checkCourses"]]
                             /\ ui' = [ui EXCEPT !.progress = 30,
                                                 !.uploadStatus = Status("Validating courses...", 0, 0)]
    /\ UNCHANGED <<sheet, store, probe>>

\* setProgress(40) .. setProgress(50): the student list is built and
\* deduplicated, up to the students upsert
prepareStudents(rr) ==
    [Reported(rr, <<Whole(40), Whole(50)>>) EXCEPT
        !.uniqueStudents = uniqueStudentsOf(studentsToUpsert(rr.records)),
        !.pc = "upsertStudents"]

prepareStudentsUi(r2) ==
    [uploading |-> ui.uploading,
     uploadStatus |-> Status("Upserting students...", Len(r2.uniqueStudents), 0),
     progress |-> 50]

\* the answer to the existing-course query, up to the next request
CheckCourses(r) ==
    /\ run[r].pc = "checkCourses"
    /\ \E outcome \in ReadOutcomes :
         LET rr == Fault(run[r], outcome)
             existingCourses == IF outcome = "ok" THEN selectCourses(store, rr.allCourseCodes)
                                ELSE {}
             existingCourseCodes == {normalizeCourseCode(c.code) : c \in existingCourses}
             newCourses == SelectSeq(rr.allCourseCodes,
                               LAMBDA code : normalizeCourseCode(code) \notin existingCourseCodes)
         IN  IF outcome = "error"
             THEN /\ run' = [run EXCEPT ![r] = Failed(rr, Err("Error checking courses", 0))]
                  /\ ui' = FailedUi(Err("Error checking courses", 0))
             ELSE IF Len(newCourses) > 0
             THEN /\ run' = [run EXCEPT ![r] = [rr EXCEPT !.newCourses = newCourses,
                                                          !.pc = "insertCourses"]]
                  /\ ui' = [ui EXCEPT !.uploadStatus =
                                Status("Creating new courses...", Len(newCourses), 0)]
             ELSE LET r2 == prepareStudents(rr)
                  IN  /\ run' = [run EXCEPT ![r] = r2]
                      /\ ui' = prepareStudentsUi(r2)
    /\ UNCHANGED <<sheet, store, probe>>

\* the courses upsert and its answer
InsertCourses(r) ==
    /\ run[r].pc = "insertCourses"
    /\ \E answer \in WriteOutcomes :
         LET rows == coursesToInsert(run[r].newCourses, run[r].courseMap)
             outcome == IF coursesRejected(store, rows) THEN "error" ELSE answer
             rr == Logged(Fault(run[r], outcome), "courses", rows, answer, outcome)
         IN  IF outcome = "error"
             THEN /\ run' = [run EXCEPT ![r] = Failed(rr, Err("Error inserting courses", 0))]
                  /\ ui' = FailedUi(Err("Error inserting courses", 0))
                  /\ store' = store
             ELSE LET r2 == prepareStudents(rr)
                  IN  /\ run' = [run EXCEPT ![r] = r2]
                      /\ ui' = prepareStudentsUi(r2)
                      /\ store' = upsertCoursesIgnore(store, rows, 1)
    /\ UNCHANGED <<sheet, probe>>

\* the students upsert and its answer
UpsertStudents(r) ==
    /\ run[r].pc = "upsertStudents"
    /\ \E outcome \in WriteOutcomes :
         LET rr == Logged(Fault(run[r], outcome), "students", run[r].uniqueStudents,
                          outcome, outcome)
         IN  IF outcome = "error"
             THEN /\ run' = [run EXCEPT ![r] = Failed(rr, Err("Error upserting students", 0))]
                  /\ ui' = FailedUi(Err("Error upserting students", 0))
                  /\ store' = store
             ELSE /\ run' = [run EXCEPT ![r] =
                                [Reported(rr, IF Len(rr.uniqueStudents) > 0
                                              THEN <<Whole(60)>>
                                              ELSE <<Whole(60), Whole(65)>>) EXCEPT
                                    !.i = 0,
                                    !.pc = IF Len(rr.uniqueStudents) > 0
                                           THEN "getStudents" ELSE "getCourses"]]
                  /\ ui' = [ui EXCEPT !.progress = IF Len(rr.uniqueStudents) > 0 THEN 60 ELSE 65,
                                      !.uploadStatus =
                                          IF Len(rr.uniqueStudents) > 0
                                          THEN Status("Mapping student IDs...", 0, 0)
                                          ELSE Status("Mapping course IDs...", 0, 0)]
                  /\ store' = upsertStudentRows(store, rr.uniqueStudents, 1)
    /\ UNCHANGED <<sheet, probe>>

\* the slice that starts one student after the end of the slice before it
studentBatchAtSkipping(students, i) ==
    SubSeq(students, i + 1 + (i \div batchSize), Min(i + batchSize, Len(students)))

\* uniqueStudents.slice(i, i + batchSize)
studentBatchAt(students, i) == SubSeq(students, i + 1, Min(i + batchSize, Len(students)))

\* the student lookups a run has issued: the register numbers asked for and
\* how the store answered
Looked(rr, registerNumbers, outcome) ==
    [rr EXCEPT !.lookups = Append(@, [registerNumbers |-> registerNumbers,
                                      outcome |-> outcome])]

\* one pass of the student id loop: the lookup of one batch and its answer
GetStudents(r) ==
    /\ run[r].pc = "getStudents"
    /\ \E outcome \in ReadOutcomes :
         LET n == Len(run[r].uniqueStudents)
             batch == studentBatchAt(run[r].uniqueStudents, run[r].i)
             registerNumbers == [k \in 1..Len(batch) |-> batch[k].register_number]
             rr == Looked(Fault(run[r], outcome), registerNumbers, outcome)
             students == IF outcome = "ok" THEN selectStudents(store, registerNumbers) ELSE {}
             found == [reg \in {normalizeRegisterNumber(x.register_number) : x \in students} |->
                          (CHOOSE x \in students :
                              normalizeRegisterNumber(x.register_number) = reg).id]
             more == rr.i + batchSize < n
         IN  IF outcome = "error"
             THEN /\ run' = [run EXCEPT ![r] =
                                Failed(rr, Err("Error getting students batch",
                                               batchNumber(rr.i, batchSize)))]
                  /\ ui' = FailedUi(Err("Error getting students batch",
                                        batchNumber(rr.i, batchSize)))
             ELSE /\ run' = [run EXCEPT ![r] =
                                [Reported(rr, IF more
                                              THEN <<batchProgress(rr.i, n)>>
                                              ELSE <<batchProgress(rr.i, n), Whole(65)>>) EXCEPT
                                           !.studentIdMap = found @@ @,
                                           !.i = IF more THEN @ + batchSize ELSE 0,
                                           !.pc = IF more THEN "getStudents" ELSE "getCourses"]]
                  /\ ui' = [ui EXCEPT !.progress = IF more THEN 60 + ((rr.i * 5) \div n) ELSE 65,
                                      !.uploadStatus =
                                          IF more
                                          THEN Status("Mapping student IDs...", Min(rr.i + batchSize, n), n)
                                          ELSE Status("Mapping course IDs...", 0, 0)]
    /\ UNCHANGED <<sheet, store, probe>>


courseIdMapOf(courses) ==
    [code \in {normalizeCourseCode(c.code) : c \in courses} |->
        (CHOOSE c \in courses : normalizeCourseCode(c.code) = code).id]

\* setProgress(100), the success status and toast, and the 3 s timer
Succeeded(rr) == [Reported(rr, <<Whole(100)>>) EXCEPT !.pc = "done", !.timer = TRUE]

\* the success status counting the rows of the file as students
SucceededUiRowCount(rr) ==
    [uploading |-> ui.uploading,
     uploadStatus |-> Status("Successfully processed students and grades",
                             Len(rr.records), Len(rr.grades.gradesToUpsert)),
     progress |-> 100]

SucceededUi(rr) ==
    [uploading |-> ui.uploading,
     uploadStatus |-> Status("Successfully processed students and grades",
                             Len(rr.uniqueStudents), Len(rr.grades.gradesToUpsert)),
     progress |-> 100]

\* the grade processing pass: setProgress(70), then every 100 records
\* (index % 100 === 0) setProgress(70 + (index / records.length) * 20)
processingReports(len) ==
    <<Whole(70)>> \o
    [j \in 1..(IF len = 0 THEN 0 ELSE ((len - 1) \div progressEvery) + 1) |->
        Frac(70 * len + (j - 1) * progressEvery * 20, len)]

\* from the course ids to the first grades upsert, or to the end of the run
\* when no grade was prepared
gradesStage(rr, courseIdMap) ==
    LET g == processGrades(rr.records, rr.studentIdMap, courseIdMap, 1, NoGrades)
        r2 == [Reported(rr, processingReports(Len(rr.records))) EXCEPT
                  !.courseIdMap = courseIdMap, !.grades = g, !.i = 0]
    IN  IF Len(g.gradesToUpsert) > 0
        THEN [Reported(r2, <<Whole(90)>>) EXCEPT !.pc = "upsertGrades"]
        ELSE Succeeded(r2)

gradesStageUi(r2) ==
    IF r2.pc = "upsertGrades"
        THEN [uploading |-> ui.uploading,
              uploadStatus |-> Status("Saving grades...", Len(r2.grades.gradesToUpsert), 0),
              progress |-> 90]
        ELSE SucceededUi(r2)

\* the retry taken whenever codes were requested
needsFallbackAlways(courseIdMap, allCourseCodes) == Len(allCourseCodes) > 0

\* courseIdMap.size === 0 && allCourseCodes.length > 0
needsFallback(courseIdMap, allCourseCodes) ==
    DOMAIN courseIdMap = {} /\ Len(allCourseCodes) > 0

\* the course id query and its answer
GetCourses(r) ==
    /\ run[r].pc = "getCourses"
    /\ \E outcome \in ReadOutcomes :
         LET rr == Fault(run[r], outcome)
             courses == IF outcome = "ok" THEN selectCourses(store, rr.allCourseCodes) ELSE {}
             courseIdMap == courseIdMapOf(courses)
         IN  IF outcome = "error"
             THEN /\ run' = [run EXCEPT ![r] = Failed(rr, Err("Error getting courses", 0))]
                  /\ ui' = FailedUi(Err("Error getting courses", 0))
                  /\ store' = store
             ELSE IF needsFallback(courseIdMap, rr.allCourseCodes)
             THEN /\ run' = [run EXCEPT ![r] = [rr EXCEPT !.courseIdMap = courseIdMap,
                                                          !.pc = "fallbackInsert"]]
                  /\ ui' = [ui EXCEPT !.progress = 65,
                                      !.uploadStatus = Status("Mapping course IDs...", 0, 0)]
                  /\ store' = store
             ELSE LET r2 == gradesStage(rr, courseIdMap)
                  IN  /\ run' = [run EXCEPT ![r] =
                                    IF r2.pc = "done" THEN [r2 EXCEPT !.storeAtEnd = store] ELSE r2]
                      /\ ui' = gradesStageUi(r2)
                      /\ store' = store
    /\ UNCHANGED <<sheet, probe>>

\* the fallback upsert of every requested code and its answer
FallbackInsert(r) ==
    /\ run[r].pc = "fallbackInsert"
    /\ \E answer \in WriteOutcomes :
         LET rows == fallbackInsert(run[r].allCourseCodes)
             outcome == IF coursesRejected(store, rows) THEN "error" ELSE answer
             rr == Logged(Fault(run[r], outcome), "courses", rows, answer, outcome)
         IN  IF outcome = "error"
             THEN /\ run' = [run EXCEPT ![r] = Failed(rr, Err("Error ensuring courses", 0))]
                  /\ ui' = FailedUi(Err("Error ensuring courses", 0))
                  /\ store' = store
             ELSE /\ run' = [run EXCEPT ![r] = [rr EXCEPT !.pc = "refetch"]]
                  /\ ui' = ui
                  /\ store' = upsertCoursesIgnore(store, rows, 1)
    /\ UNCHANGED <<sheet, probe>>

\* the second course id query; its error is not looked at (refetch.data || [])
Refetch(r) ==
    /\ run[r].pc = "refetch"
    /\ \E outcome \in ReadOutcomes :
         LET rr == Fault(run[r], outcome)
             courses == IF outcome = "ok" THEN selectCourses(store, rr.allCourseCodes) ELSE {}
             courseIdMap == courseIdMapOf(courses)
             r2 == gradesStage(rr, courseIdMap)
         IN  /\ run' = [run EXCEPT ![r] =
                           IF r2.pc = "done" THEN [r2 EXCEPT !.storeAtEnd = store] ELSE r2]
             /\ ui' = gradesStageUi(r2)
    /\ UNCHANGED <<sheet, store, probe>>

\* the slice that takes one row more than the batch size
gradeBatchAtInclusive(all, i) ==
    SubSeq(all, i + 1, Min(i + gradeBatchSize + 1, Len(all)))

\* gradesToUpsert.slice(i, i + gradeBatchSize)
gradeBatchAt(all, i) == SubSeq(all, i + 1, Min(i + gradeBatchSize, Len(all)))

\* one pass of the grade write loop: the upsert of one batch and its answer
UpsertGrades(r) ==
    /\ run[r].pc = "upsertGrades"
    /\ \E answer \in WriteOutcomes :
         LET all == run[r].grades.gradesToUpsert
             n == Len(all)
             batch == gradeBatchAt(all, run[r].i)
             outcome == IF hasDuplicateKeys(batch) THEN "error" ELSE answer
             rr == Logged(Fault(run[r], outcome), "grades", batch, answer, outcome)
             more == rr.i + gradeBatchSize < n
             after == upsertGradeRows(store, batch, 1)
         IN  IF outcome = "error"
             THEN /\ run' = [run EXCEPT ![r] =
                                Failed(rr, Err("Error upserting grades batch",
                                               batchNumber(rr.i, gradeBatchSize)))]
                  /\ ui' = FailedUi(Err("Error upserting grades batch",
                                        batchNumber(rr.i, gradeBatchSize)))
                  /\ store' = store
             ELSE IF more
             THEN /\ run' = [run EXCEPT ![r] =
                                [Reported(rr, <<gradeProgress(rr.i, n)>>) EXCEPT
                                    !.i = @ + gradeBatchSize]]
                  /\ ui' = [ui EXCEPT !.progress = 90 + ((rr.i * 10) \div n),
                                      !.uploadStatus =
                                          Status("Saving grades...", Min(rr.i + gradeBatchSize, n), n)]
                  /\ store' = after
             ELSE /\ run' = [run EXCEPT ![r] =
                                [Succeeded(Reported(rr, <<gradeProgress(rr.i, n)>>)) EXCEPT
                                    !.storeAtEnd = after]]
                  /\ ui' = SucceededUi(rr)
                  /\ store' = after
    /\ UNCHANGED <<sheet, probe>>

\* the timer set on success: 3 s later the component is reset
HideSuccess(r) ==
    /\ run[r].timer
    /\ run' = [run EXCEPT ![r] = [@ EXCEPT !.timer = FALSE]]
    /\ ui' = [uploading |-> FALSE, uploadStatus |-> Status("", 0, 0), progress |-> 0]
    /\ UNCHANGED <<sheet, store, probe>>

Step(r) ==
    \/ TestConnection(r)
    \/ ReadFile(r)
    \/ CheckCourses(r)
    \/ InsertCourses(r)
    \/ UpsertStudents(r)
    \/ GetStudents(r)
    \/ GetCourses(r)
    \/ FallbackInsert(r)
    \/ Refetch(r)
    \/ UpsertGrades(r)
    \/ HideSuccess(r)

----------------------------------------------------------------------------
(* Specifications.                                                         *)

Init ==
    /\ sheet \in RunSheets
    /\ store = EmptyStore
    /\ run = [r \in Runs |-> IdleRun]
    /\ ui = IdleUi
    /\ probe = NoProbe

\* one file is chosen and ingested once
BeginOnce(r) ==
    /\ r = 1
    /\ \E via \in {"select", "drop"} : Begin(r, via)

Next == \E r \in Runs : BeginOnce(r) \/ Step(r)

Spec == Init /\ [][Next]_vars

\* a run that stands at an await of processExcelData or whose timer is set:
\* the states in which Step(r) can be taken
Pending(r) == run[r].pc \notin ({"idle"} \cup Terminal) \/ run[r].timer

\* one upload whose requests are all answered: every await of processExcelData
\* settles and the timer set on success fires.  This is weak fairness of
\* Step(r), with the enabling condition of Step(r) written out as Pending(r).
Fairness == \A r \in Runs : []<>(~Pending(r)) \/ []<><<Step(r)>>_vars

SpecFair == Init /\ [][Next]_vars /\ Fairness

\* the same file is ingested again after a run that succeeded
InitTwice ==
    /\ sheet \in TwiceSheets
    /\ store = EmptyStore
    /\ run = [r \in Runs |-> IdleRun]
    /\ ui = IdleUi
    /\ probe = NoProbe

BeginInTurn(r) ==
    /\ \A q \in Runs : q < r => run[q].pc = "done"
    /\ \E via \in {"select", "drop"} : Begin(r, via)

NextTwice == \E r \in Runs : BeginInTurn(r) \/ Step(r)

SpecTwice == InitTwice /\ [][NextTwice]_vars

\* two runs of the same file, the second begun at any moment by a drop or,
\* from another session, by a selection
InitRace ==
    /\ sheet \in RaceSheets
    /\ store = EmptyStore
    /\ run = [r \in Runs |-> IdleRun]
    /\ ui = IdleUi
    /\ probe = NoProbe

BeginAnyTime(r) == \E via \in {"select", "drop"} : Begin(r, via)

NextRace == \E r \in Runs : BeginAnyTime(r) \/ Step(r)

SpecRace == InitRace /\ [][NextRace]_vars

----------------------------------------------------------------------------
(* The header resolver and the grade classifier applied on their own.      *)

\* one upload into a store that already holds courses
InitSeeded ==
    /\ sheet \in SeededSheets
    /\ store = SeededStore
    /\ run = [r \in Runs |-> IdleRun]
    /\ ui = IdleUi
    /\ probe = NoProbe

NextSeeded == BeginOnce(1) \/ \E r \in Runs : Step(r)

SpecSeeded == InitSeeded /\ [][NextSeeded]_vars

----------------------------------------------------------------------------
(* The grade write loop on long lists.  A run stands before its first      *)
(* grades upsert with n payloads prepared from a file of n rows: row k is   *)
(* the grade of student ((k - 1) % ChunkStudents) + 1 in course            *)
(* ((k - 1) \div ChunkStudents) + 1.                                       *)

\* the largest number of grade payloads of a run
MaxPayloads == 1203

\* the number of students the rows of a long file are spread over
ChunkStudents == 40

DigitChars == <<"0", "1", "2", "3", "4", "5", "6", "7", "8", "9">>

RECURSIVE numeral(_)
\* String(n) for a natural number
numeral(n) ==
    IF n < 10 THEN <<DigitChars[n + 1]>>
    ELSE numeral(n \div 10) \o <<DigitChars[(n % 10) + 1]>>

\* the sizes of the prepared lists: around the multiples of the batch size
PayloadCounts ==
    {n \in 1..MaxPayloads :
        n % gradeBatchSize \in {0, 1, 2, 203, gradeBatchSize - 1} \/ n = MaxPayloads}

studentOfRow(k) == ((k - 1) % ChunkStudents) + 1
courseOfRow(k) == ((k - 1) \div ChunkStudents) + 1
studentsOfFile(n) == Min(n, ChunkStudents)
coursesOfFile(n) == ((n - 1) \div ChunkStudents) + 1

regOf(x) == <<"R">> \o numeral(x)
codeOf(c) == <<"C">> \o numeral(c)
gradeOfRow(k) ==
    (passingGrades \o failingGrades)[((k - 1) % (Len(passingGrades) + Len(failingGrades))) + 1]

longRecords(n) ==
    [k \in 1..n |-> << numeral(k), <<"E", "T">>, regOf(studentOfRow(k)), sAlice, <<"3">>,
                       <<"2", "1">>, <<"B", "T">>, <<"C", "S", "E">>, <<"U", "G">>,
                       codeOf(courseOfRow(k)), sTitle, <<"3">>, gradeOfRow(k), sRegular >>]

\* ids in the order the run created the rows: courses, then students
longCourseId(c) == c
longStudentId(n, x) == coursesOfFile(n) + x

longPayloads(n) ==
    [k \in 1..n |->
        gradeRow(longStudentId(n, studentOfRow(k)), longCourseId(courseOfRow(k)),
                 gradeOfRow(k), sRegular).push[1]]

longStudents(n) ==
    [x \in 1..studentsOfFile(n) |->
        [register_number |-> regOf(x), name |-> sAlice, semester |-> <<"3">>,
         batch |-> <<"2", "1">>, degree |-> <<"B", "T">>, office_name |-> <<"E", "T">>,
         branch_of_study |-> <<"C", "S", "E">>, graduation_type |-> <<"U", "G">>]]

\* the store when the grade writes begin; with again, the grades of an earlier
\* upload of the same rows are there, every one recorded as F
longStore(n, again) ==
    [courses |-> {[id |-> longCourseId(c), code |-> codeOf(c), name |-> sTitle,
                   title |-> sTitle, credits |-> <<"3">>] : c \in 1..coursesOfFile(n)},
     students |-> {[id |-> longStudentId(n, x), row |-> longStudents(n)[x],
                    register_number |-> regOf(x)] : x \in 1..studentsOfFile(n)},
     grades |-> IF again
                THEN {[id |-> coursesOfFile(n) + studentsOfFile(n) + k,
                       student_id |-> longStudentId(n, studentOfRow(k)),
                       course_id |-> longCourseId(courseOfRow(k)),
                       grade |-> <<"F">>, is_passed |-> FALSE,
                       mode_of_attempt |-> sRegular] : k \in 1..n}
                ELSE {},
     nextId |-> coursesOfFile(n) + studentsOfFile(n) + (IF again THEN n ELSE 0) + 1]

\* the run after the grade loop, before its first grades upsert
longRun(n) ==
    [IdleRun EXCEPT
        !.pc = "upsertGrades",
        !.records = longRecords(n),
        !.allCourseCodes = [c \in 1..coursesOfFile(n) |-> codeOf(c)],
        !.courseMap = [code \in {codeOf(c) : c \in 1..coursesOfFile(n)} |->
                          [title |-> sTitle, credits |-> <<"3">>]],
        !.uniqueStudents = longStudents(n),
        !.studentIdMap = [reg \in {regOf(x) : x \in 1..studentsOfFile(n)} |->
                             longStudentId(n, CHOOSE x \in 1..studentsOfFile(n) : regOf(x) = reg)],
        !.courseIdMap = [code \in {codeOf(c) : c \in 1..coursesOfFile(n)} |->
                            longCourseId(CHOOSE c \in 1..coursesOfFile(n) : codeOf(c) = code)],
        !.grades = [NoGrades EXCEPT !.gradesToUpsert = longPayloads(n)],
        !.writes = << [table |-> "students", rows |-> longStudents(n),
                       fault |-> FALSE, ok |-> TRUE] >>,
        !.reported = <<Whole(0), Whole(10), Whole(20), Whole(30), Whole(40), Whole(50),
                       Whole(60), batchProgress(0, studentsOfFile(n)),
                       Whole(65)>> \o processingReports(n) \o <<Whole(90)>>]

InitChunks ==
    /\ \E n \in PayloadCounts, again \in BOOLEAN :
          /\ run = [r \in Runs |-> IF r = 1 THEN longRun(n) ELSE IdleRun]
          /\ store = longStore(n, again)
          /\ ui = [uploading |-> TRUE,
                   uploadStatus |-> Status("Saving grades...", n, 0),
                   progress |-> 90]
    /\ sheet = <<>>
    /\ probe = NoProbe

NextChunks == UpsertGrades(1) \/ HideSuccess(1)

SpecChunks == InitChunks /\ [][NextChunks]_vars

\* one upload of a short file from its start, or of a long file from the
\* first grade write on
InitProgress == Init \/ InitChunks

SpecProgress == InitProgress /\ [][Next]_vars

----------------------------------------------------------------------------
(* The student id loop on long lists.  A run stands after its students     *)
(* upsert with n deduplicated students, one per row of the file, all of    *)
(* them in the store.                                                      *)

\* the largest number of deduplicated students of a run
MaxLookupStudents == 201

\* the sizes of the student list: around the multiples of the batch size and
\* half way between them
LookupCounts ==
    {n \in 1..MaxLookupStudents :
        n % batchSize \in {0, 1, 2, 3, batchSize \div 2, batchSize - 2, batchSize - 1}
            \/ n = MaxLookupStudents}

manyRecords(n) ==
    [k \in 1..n |-> << numeral(k), <<"E", "T">>, regOf(k), sAlice, <<"3">>,
                       <<"2", "1">>, <<"B", "T">>, <<"C", "S", "E">>, <<"U", "G">>,
                       codeOf(1), sTitle, <<"3">>, gradeOfRow(k), sRegular >>]

\* the store after the students upsert of n students went through
manyStore(n) ==
    [courses |-> {[id |-> 1, code |-> codeOf(1), name |-> sTitle,
                   title |-> sTitle, credits |-> <<"3">>]},
     students |-> {[id |-> 1 + x, row |-> studentsToUpsert(manyRecords(n))[x],
                    register_number |-> regOf(x)] : x \in 1..n},
     grades |-> {},
     nextId |-> n + 2]

\* the run after its students upsert went through, before its first lookup
manyRun(n) ==
    LET students == uniqueStudentsOf(studentsToUpsert(manyRecords(n)))
    IN  [Logged(IdleRun, "students", students, "ok", "ok") EXCEPT
            !.pc = "getStudents",
            !.records = manyRecords(n),
            !.allCourseCodes = <<codeOf(1)>>,
            !.courseMap = (codeOf(1) :> [title |-> sTitle, credits |-> <<"3">>]),
            !.uniqueStudents = students,
            !.reported = <<Whole(0), Whole(10), Whole(20), Whole(30), Whole(40), Whole(50),
                           Whole(60)>>]

InitLookups ==
    /\ \E n \in LookupCounts :
          /\ run = [r \in Runs |-> IF r = 1 THEN manyRun(n) ELSE IdleRun]
          /\ store = manyStore(n)
          /\ ui = [uploading |-> TRUE,
                   uploadStatus |-> Status("Mapping student IDs...", 0, 0),
                   progress |-> 60]
    /\ sheet = <<>>
    /\ probe = NoProbe

NextLookups == GetStudents(1)

SpecLookups == InitLookups /\ [][NextLookups]_vars

----------------------------------------------------------------------------
(* The grade point aggregates of the database functions.                   *)

\* the CASE of calculate_student_gpa and get_course_performance, in order
gradePointCases ==
  << [grade |-> <<"O">>, points |-> 10], [grade |-> <<"A", "+">>, points |-> 9],
     [grade |-> <<"A">>, points |-> 8], [grade |-> <<"B", "+">>, points |-> 7],
     [grade |-> <<"B">>, points |-> 6], [grade |-> <<"C", "+">>, points |-> 5],
     [grade |-> <<"C">>, points |-> 4], [grade |-> <<"D">>, points |-> 3],
     [grade |-> <<"F">>, points |-> 0] >>

\* the first WHEN that equals the grade; <<>> when none does
whenOf(grade) ==
    SelectSeq(gradePointCases, LAMBDA w : w.grade = grade)

\* CASE e.grade ... ELSE 0.0 END
gradePointsOrZero(grade) ==
    IF whenOf(grade) = <<>> THEN 0 ELSE whenOf(grade)[1].points

\* e.grade NOT IN ('RA', 'AB', 'W', 'I', 'Absent', 'ABSENT')
gpaExcluded ==
  << <<"R", "A">>, <<"A", "B">>, <<"W">>, <<"I">>, <<"A", "b", "s", "e", "n", "t">>,
     <<"A", "B", "S", "E", "N", "T">> >>

\* the rows the loop of calculate_student_gpa runs over
selectedForGpa(enrollments) ==
    SelectSeq(enrollments, LAMBDA e : ~arrayIncludes(gpaExcluded, e.grade))

RECURSIVE gpaLoop(_, _, _)
\* FOR course_credits, grade_points IN ... LOOP
gpaLoop(rows, k, acc) ==
    IF k > Len(rows) THEN acc
    ELSE gpaLoop(rows, k + 1,
                 [total_points |-> acc.total_points +
                                       rows[k].credits * gradePointsOrZero(rows[k].grade),
                  total_credits |-> acc.total_credits + rows[k].credits])

\* calculate_student_gpa: the totals, and the result in hundredths
\* (ROUND(total_points / total_credits, 2), halves rounded away from zero)
calculateStudentGpa(enrollments) ==
    LET t == gpaLoop(selectedForGpa(enrollments), 1,
                     [total_points |-> 0, total_credits |-> 0])
    IN  [total_points |-> t.total_points,
         total_credits |-> t.total_credits,
         gpa |-> IF t.total_credits = 0 THEN 0
                 ELSE (200 * t.total_points + t.total_credits) \div (2 * t.total_credits)]

RECURSIVE avgLoop(_, _, _)
\* AVG(CASE WHEN g.grade = ... ELSE NULL END): the rows with a value are
\* summed and counted, the NULLs are ignored
avgLoop(rows, k, acc) ==
    IF k > Len(rows) THEN acc
    ELSE avgLoop(rows, k + 1,
                 IF whenOf(rows[k].grade) = <<>> THEN acc
                 ELSE [sum |-> acc.sum + whenOf(rows[k].grade)[1].points,
                       count |-> acc.count + 1])

\* average_grade_points of get_course_performance, as sum and count
averageGradePoints(grades) == avgLoop(grades, 1, [sum |-> 0, count |-> 0])

\* the grade tokens of the enrollments tried
GpaTokens ==
    {gradePointCases[i].grade : i \in 1..Len(gradePointCases)} \cup Range(gpaExcluded) \cup
    {<<"U">>, <<"A", "b">>, <<"F", "a", "i", "l">>, <<"S">>, <<"o">>, <<"W", "H">>}

\* the credits of the courses tried
GpaCredits == {0, 3, 4}

\* the largest number of enrollments of the student
MaxEnrollments == 2

InitGpa ==
    /\ sheet = <<>>
    /\ store = EmptyStore
    /\ run = [r \in Runs |-> IdleRun]
    /\ ui = IdleUi
    /\ probe \in {[op |-> "gpa", done |-> FALSE, enrollments |-> e,
                   result |-> [total_points |-> 0, total_credits |-> 0, gpa |-> 0],
                   average |-> [sum |-> 0, count |-> 0]] :
                     e \in SeqsUpTo([grade : GpaTokens, credits : GpaCredits], MaxEnrollments)}

\* the two functions applied to the enrollments of one student and to the
\* same rows taken as the grades of one course
ComputeGpa ==
    /\ probe.op = "gpa"
    /\ ~probe.done
    /\ probe' = [probe EXCEPT !.done = TRUE,
                              !.result = calculateStudentGpa(probe.enrollments),
                              !.average = averageGradePoints(probe.enrollments)]
    /\ UNCHANGED <<sheet, store, run, ui>>

SpecGpa == InitGpa /\ [][ComputeGpa]_vars

\* the characters of the course code cells tried, and their largest length
CodeChars == {"a", "B", "c", "1", "0", " ", "-", "+"}

MaxCodeLen == 3

InitNormalize ==
    /\ sheet = <<>>
    /\ store = EmptyStore
    /\ run = [r \in Runs |-> IdleRun]
    /\ ui = IdleUi
    /\ probe \in {[op |-> "normalize", done |-> FALSE, code |-> c,
                   once |-> <<>>, twice |-> <<>>] :
                     c \in SeqsUpTo(CodeChars, MaxCodeLen) \cup {Undefined}}

\* normalizeCourseCode applied to a cell, and again to its own result
NormalizeCode ==
    /\ probe.op = "normalize"
    /\ ~probe.done
    /\ probe' = [probe EXCEPT !.done = TRUE,
                              !.once = normalizeCourseCode(probe.code),
                              !.twice = normalizeCourseCode(normalizeCourseCode(probe.code))]
    /\ UNCHANGED <<sheet, store, run, ui>>

SpecNormalize == InitNormalize /\ [][NormalizeCode]_vars

InitHeader ==
    /\ sheet \in HeaderSheets
    /\ store = EmptyStore
    /\ run = [r \in Runs |-> IdleRun]
    /\ ui = IdleUi
    /\ probe = [op |-> "header", done |-> FALSE, headerRowIndex |-> 0]

\* the header scan of processExcelData on the sheet
ScanHeader ==
    /\ probe.op = "header"
    /\ ~probe.done
    /\ probe' = [probe EXCEPT !.done = TRUE, !.headerRowIndex = detectHeaderRow(sheet)]
    /\ UNCHANGED <<sheet, store, run, ui>>

SpecHeader == InitHeader /\ [][ScanHeader]_vars

\* grade tokens that are in neither fixed set
otherGrades ==
  << <<"S">>, <<"E">>, <<"P">>, <<"P", "a", "s", "s">>,
     <<"P", "e", "n", "d", "i", "n", "g">>,
     <<"w", "h">>, <<"f">>, <<"o">>, <<"a", "+">>,
     <<"A", "b", "s", "e", "n", "t", " ", "(", "m", "e", "d", ")">>,
     <<"R", "A", "*">>, <<"N", "A">>, <<"X">>, <<"R", "e">>, <<"Z", "+">>, <<"-">> >>

GradeTokens == Range(passingGrades) \cup Range(failingGrades) \cup Range(otherGrades)

\* the cell a token is read from: as it is, or with blanks around it
GradeCells ==
    GradeTokens \cup {<<" ">> \o t : t \in GradeTokens} \cup {t \o <<" ", " ">> : t \in GradeTokens}

InitClassify ==
    /\ sheet = <<>>
    /\ store = EmptyStore
    /\ run = [r \in Runs |-> IdleRun]
    /\ ui = IdleUi
    /\ probe \in {[op |-> "grade", done |-> FALSE, grade |-> g, mode |-> m,
                   payload |-> <<>>, earlier |-> FALSE] :
                     g \in GradeCells, m \in {<<>>, sArrear}}

\* one row of the grade loop whose student and course are resolved (ids 1 and
\* 2), in the current uploader and in the earlier one
ClassifyGrade ==
    /\ probe.op = "grade"
    /\ ~probe.done
    /\ probe' = [probe EXCEPT !.done = TRUE,
                              !.payload = gradeRow(1, 2, probe.grade, probe.mode).push,
                              !.earlier = classifyThreeTier(trim(probe.grade))]
    /\ UNCHANGED <<sheet, store, run, ui>>

SpecClassify == InitClassify /\ [][ClassifyGrade]_vars

\* two rows of the grade loop, of one run or of two, whose cells hold the same
\* token once trimmed: the first of student 1 in course 2 on a regular
\* attempt, the second of any student, course and attempt
InitPair ==
    /\ sheet = <<>>
    /\ store = EmptyStore
    /\ run = [r \in Runs |-> IdleRun]
    /\ ui = IdleUi
    /\ probe \in {[op |-> "pair", done |-> FALSE,
                   rows |-> << [student |-> 1, course |-> 2, grade |-> g1, mode |-> <<>>],
                               [student |-> s, course |-> c, grade |-> g2, mode |-> m] >>,
                   payloads |-> <<>>, earlier |-> <<>>] :
                     g1 \in GradeCells, g2 \in GradeCells, s \in {1, 3}, c \in {2, 4},
                     m \in {<<>>, sArrear}}
    /\ trim(probe.rows[1].grade) = trim(probe.rows[2].grade)

\* the two rows classified, in the current uploader and in the earlier one
ClassifyPair ==
    /\ probe.op = "pair"
    /\ ~probe.done
    /\ probe' = [probe EXCEPT
                    !.done = TRUE,
                    !.payloads = [i \in 1..2 |->
                                     gradeRow(probe.rows[i].student, probe.rows[i].course,
                                              probe.rows[i].grade, probe.rows[i].mode).push],
                    !.earlier = [i \in 1..2 |-> classifyThreeTier(trim(probe.rows[i].grade))]]
    /\ UNCHANGED <<sheet, store, run, ui>>

SpecPair == InitPair /\ [][ClassifyPair]_vars

\* the backfill of the stored flags: UPDATE grades SET is_passed = CASE
\*   WHEN grade IN (...) THEN true WHEN grade IN (...) THEN false ELSE false END
backfillTrue ==
  << <<"O">>, <<"A", "+">>, <<"A">>, <<"B", "+">>, <<"B">>, <<"C", "+">>, <<"C">> >>

backfillFalse ==
  << <<"D">>, <<"F">>, <<"F", "a", "i", "l">>, <<"F", "A", "I", "L">>,
     <<"f", "a", "i", "l">>, <<"U">>, <<"R", "A">>, <<"A", "b">>, <<"A", "B">>,
     <<"a", "b">>, <<"A", "b", "s", "e", "n", "t">>,
     <<"A", "B", "S", "E", "N", "T">>, <<"W">>, <<"I">> >>

backfillIsPassed(grade) ==
    IF arrayIncludes(backfillTrue, grade) THEN TRUE
    ELSE IF arrayIncludes(backfillFalse, grade) THEN FALSE
    ELSE FALSE

\* a grade cell is ingested into an empty grades table, then the backfill
\* runs over the table
InitBackfill ==
    /\ sheet = <<>>
    /\ store = EmptyStore
    /\ run = [r \in Runs |-> IdleRun]
    /\ ui = IdleUi
    /\ probe \in {[op |-> "backfill", stage |-> "file", grade |-> g, mode |-> m,
                   rows |-> <<>>, ingested |-> FALSE, earlier |-> FALSE] :
                     g \in GradeCells, m \in {<<>>, sArrear}}

\* the grade loop and the grades upsert for the one row (student 1, course 2);
\* ingested is the flag the current uploader wrote, earlier the flag of the
\* earlier uploader for the same token
IngestGrade ==
    /\ probe.op = "backfill"
    /\ probe.stage = "file"
    /\ LET push == gradeRow(1, 2, probe.grade, probe.mode).push
       IN  probe' = [probe EXCEPT
                        !.stage = "stored",
                        !.rows = push,
                        !.ingested = push # <<>> /\ push[1].is_passed,
                        !.earlier = classifyThreeTier(trim(probe.grade))]
    /\ UNCHANGED <<sheet, store, run, ui>>

\* the UPDATE over every row of grades
BackfillGrades ==
    /\ probe.op = "backfill"
    /\ probe.stage = "stored"
    /\ probe' = [probe EXCEPT
                    !.stage = "updated",
                    !.rows = [i \in 1..Len(probe.rows) |->
                                 [probe.rows[i] EXCEPT
                                     !.is_passed = backfillIsPassed(probe.rows[i].grade)]]]
    /\ UNCHANGED <<sheet, store, run, ui>>

SpecBackfill == InitBackfill /\ [][IngestGrade \/ BackfillGrades]_vars

----------------------------------------------------------------------------
(* Properties.                                                             *)

InArray(arr, x) == \E i \in 1..Len(arr) : arr[i] = x

ProbedGrade == probe.op = "grade" /\ probe.done /\ probe.payload # <<>>

\* C1: a grade token of the fixed passing set is written with is_passed true,
\* a token of the fixed failing set with is_passed false.
C1_FixedSetsDecideFlag ==
    ProbedGrade =>
        /\ InArray(passingGrades, probe.payload[1].grade) => probe.payload[1].is_passed
        /\ InArray(failingGrades, probe.payload[1].grade) => ~probe.payload[1].is_passed

\* C7: a token of neither fixed set is written with is_passed false exactly
\* when its lower-cased form contains the lower-cased form of a failing entry.
C7_SubstringTier ==
    (ProbedGrade /\ ~InArray(passingGrades, probe.payload[1].grade)
                 /\ ~InArray(failingGrades, probe.payload[1].grade)) =>
        (probe.payload[1].is_passed
            <=> ~\E i \in 1..Len(failingGrades) :
                    includes(toLowerCase(probe.payload[1].grade), toLowerCase(failingGrades[i])))

ScannedHeader == probe.op = "header" /\ probe.done

FirstTenRows == 0..Min(9, Len(sheet) - 1)

BannersThenHeaderAtThree ==
    /\ Len(sheet) = 12
    /\ \A r \in 0..2 : sheet[r + 1] = BannerRow
    /\ score(sheet[4]) >= 6

\* C8: the header row is the first row with at least 6 expected labels, row 0
\* when none of the rows 0..9 has 6; a 12-row sheet with banners in rows 0-2
\* and at least 6 labels in row 3 gives 3.
C8_FirstRowAtThreshold ==
    ScannedHeader =>
        LET h == probe.headerRowIndex
        IN  /\ h \in 0..(Len(sheet) - 1)
            /\ score(sheet[h + 1]) >= 6 => \A r \in 0..(h - 1) : score(sheet[r + 1]) < 6
            /\ score(sheet[h + 1]) < 6 =>
                   h = 0 /\ \A r \in FirstTenRows : score(sheet[r + 1]) < 6
            /\ BannersThenHeaderAtThree => h = 3

C8_Witness ==
    /\ ScannedHeader
    /\ BannersThenHeaderAtThree
    /\ sheet[4] = HeaderLoose
    /\ probe.headerRowIndex = 3

\* C9: the header row selected is never a row of index 10 or more.
C9_NeverBeyondRowNine == ScannedHeader => probe.headerRowIndex <= 9


\* the sheet of the end-to-end scenario: (R1, Alice, 21CSC204J, A+),
\* (R1, Alice, 21CSC205P, F), (no register number, no name, 21CSC206T, O)
ScenarioSheet == <<HeaderWith(NumColumns), RowA, RowB, RowC>>

ScenarioDone == sheet = ScenarioSheet /\ run[1].pc = "done" /\ run[1].faults = 0

\* C2: the scenario ends with 1 student, 2 courses, 2 grades flagged true and
\* false, and one skipped row: the third row creates no student and no grade.
C2_ScenarioCounts ==
    ScenarioDone =>
        /\ Cardinality(store.students) = 1
        /\ Cardinality(store.courses) = 2
        /\ Cardinality(store.grades) = 2
        /\ {g.is_passed : g \in store.grades} = {TRUE, FALSE}
        /\ Len(run[1].records) - Len(run[1].grades.gradesToUpsert) = 1

\* C3: no row without a register number or without a name is in a list
\* upserted to the students table.
C3_IncompleteStudentsDropped ==
    \A r \in Runs : \A w \in 1..Len(run[r].writes) :
        run[r].writes[w].table = "students" =>
            \A k \in 1..Len(run[r].writes[w].rows) :
                /\ run[r].writes[w].rows[k].register_number # <<>>
                /\ Truthy(run[r].writes[w].rows[k].name)

\* the grade loop of run r has run
GradesPrepared(r) ==
    \/ run[r].pc \in {"upsertGrades", "done"}
    \/ run[r].pc = "failed" /\ run[r].error.text = "Error upserting grades batch"

StudentIdOfRow(r, k) ==
    MapGet(run[r].studentIdMap, trim(run[r].records[k][RegisterNo]))

CourseIdOfRow(r, k) ==
    MapGet(run[r].courseIdMap, normalizeCourseCode(run[r].records[k][CourseCode]))

\* rows that must give no payload: student or course unresolved, or no grade
UnresolvedRows(r) ==
    {k \in 1..Len(run[r].records) :
        \/ StudentIdOfRow(r, k) = NoId
        \/ CourseIdOfRow(r, k) = NoId
        \/ trim(run[r].records[k][Grade]) = <<>>}

\* C4: every grade payload carries ids of a student and a course of the store
\* that the run looked up; the rows with an unresolved student or course or
\* with an empty grade give no payload, each is counted by a diagnostic
\* counter, and the run goes on to the grade writes or to its end.
C4_OnlyResolvedGrades ==
    \A r \in Runs :
        GradesPrepared(r) =>
            LET g == run[r].grades
                rows == 1..Len(run[r].records)
                kept == rows \ UnresolvedRows(r)
            IN  /\ Len(g.gradesToUpsert) = Cardinality(kept)
                /\ \A p \in Range(g.gradesToUpsert) :
                       /\ \E k \in kept : /\ p.student_id = StudentIdOfRow(r, k)
                                          /\ p.course_id = CourseIdOfRow(r, k)
                       /\ \E x \in store.students : x.id = p.student_id
                       /\ \E c \in store.courses : c.id = p.course_id
                /\ \A w \in 1..Len(run[r].writes) :
                       run[r].writes[w].table = "grades" =>
                           Range(run[r].writes[w].rows) \subseteq Range(g.gradesToUpsert)
                /\ g.missingStudentId = Cardinality({k \in rows : StudentIdOfRow(r, k) = NoId})
                /\ g.missingCourseId = Cardinality({k \in rows : CourseIdOfRow(r, k) = NoId})
                /\ g.missingStudentId + g.missingCourseId + g.missingOrEmptyGrade
                       >= Cardinality(UnresolvedRows(r))
                /\ \A k \in UnresolvedRows(r) :
                       (StudentIdOfRow(r, k) # NoId /\ CourseIdOfRow(r, k) # NoId)
                           => g.missingOrEmptyGrade >= 1
                /\ run[r].pc = "failed" =>
                       ~run[r].writes[Len(run[r].writes)].ok

C4_Witness ==
    \E r \in Runs :
        /\ run[r].pc = "done"
        /\ run[r].grades.missingCourseId > 0
        /\ run[r].grades.missingOrEmptyGrade > 0
        /\ Len(run[r].grades.gradesToUpsert) > 0
        /\ \E w \in 1..Len(run[r].writes) :
               run[r].writes[w].table = "grades" /\ run[r].writes[w].ok

\* the header row a run has read, trimmed, and the expected columns that no
\* cell of it equals after trimming and lower-casing
HeaderCellsRead(r) ==
    {trim(c) : c \in Range(sheetToJson(sheet, run[r].headerRowIndex)[1])}

MissingNames(r) ==
    {requiredColumns[c] : c \in {d \in 1..NumColumns :
        ~\E h \in HeaderCellsRead(r) : toLowerCase(h) = toLowerCase(requiredColumns[d])}}

\* the file has been read and holds a header row and at least one more row
HasRead(r) ==
    /\ run[r].pc \notin {"idle", "testConnection", "readFile"}
    /\ ~(run[r].pc = "failed" /\ run[r].error.text \in
            {"Cannot connect to database", "Please upload a valid Excel file"})
    /\ Len(sheetToJson(sheet, run[r].headerRowIndex)) >= 2

\* C10: when a required column has no matching header the run fails, the
\* error lists the missing names and the headers found, and the run has
\* issued no write to the store.
C10_MissingColumnsFailFast ==
    \A r \in Runs :
        (HasRead(r) /\ MissingNames(r) # {}) =>
            /\ run[r].pc = "failed"
            /\ run[r].error.text = "Missing required columns"
            /\ Range(run[r].error.missing) = MissingNames(r)
            /\ Range(run[r].error.found) = HeaderCellsRead(r)
            /\ ui.uploadStatus = ErrorStatus(run[r].error)
            /\ run[r].writes = <<>>
            /\ store = EmptyStore

C10_Witness ==
    /\ sheet = <<HeaderNoGrade, RowA>>
    /\ run[1].pc = "failed"
    /\ Range(run[1].error.missing) = {requiredColumns[Grade]}
    /\ run[1].writes = <<>>

\* both runs of the file succeeded and every request of both was answered
\* with its rows and without an error
BothRunsClean ==
    /\ run[1].pc = "done" /\ run[1].faults = 0
    /\ run[2].pc = "done" /\ run[2].faults = 0

CourseKeys(st) == {c.code : c \in st.courses}
StudentKeys(st) == {x.register_number : x \in st.students}
GradeKeys(st) == {GradeKey(g) : g \in st.grades}

\* C5: after the second clean run of a file the store holds the same courses,
\* students and grades, by key and by count, as after the first.
C5_SecondRunAddsNothing ==
    BothRunsClean =>
        LET first == run[1].storeAtEnd
        IN  /\ CourseKeys(store) = CourseKeys(first)
            /\ StudentKeys(store) = StudentKeys(first)
            /\ GradeKeys(store) = GradeKeys(first)
            /\ Cardinality(store.courses) = Cardinality(first.courses)
            /\ Cardinality(store.students) = Cardinality(first.students)
            /\ Cardinality(store.grades) = Cardinality(first.grades)
            /\ Cardinality(store.courses) = Cardinality(CourseKeys(store))
            /\ Cardinality(store.students) = Cardinality(StudentKeys(store))
            /\ Cardinality(store.grades) = Cardinality(GradeKeys(store))

C5_Witness ==
    /\ BothRunsClean
    /\ Cardinality(store.grades) = 2
    /\ \E w \in 1..Len(run[2].writes) :
           run[2].writes[w].table = "grades" /\ run[2].writes[w].ok

\* run r sent a courses upsert with a row for the code, and it went through
CreatedCourse(r, code) ==
    \E w \in 1..Len(run[r].writes) :
        /\ run[r].writes[w].table = "courses"
        /\ run[r].writes[w].ok
        /\ \E k \in 1..Len(run[r].writes[w].rows) : run[r].writes[w].rows[k].code = code

\* C6: with two overlapping runs the store never holds two course records of
\* one code, a course a run has created is there exactly once, and a courses
\* upsert fails only when the store itself fails, never for the conflict.
C6_OneCoursePerCode ==
    /\ \A c1, c2 \in store.courses : c1.code = c2.code => c1 = c2
    /\ \A r \in Runs : \A w \in 1..Len(run[r].writes) :
           run[r].writes[w].table = "courses" =>
               /\ ~run[r].writes[w].ok => run[r].writes[w].fault
               /\ run[r].writes[w].ok =>
                      \A k \in 1..Len(run[r].writes[w].rows) :
                          Cardinality({c \in store.courses :
                                          c.code = run[r].writes[w].rows[k].code}) = 1

C6_Witness ==
    /\ CreatedCourse(1, s21CSC204J)
    /\ CreatedCourse(2, s21CSC204J)
    /\ Cardinality({c \in store.courses : c.code = s21CSC204J}) = 1
    /\ run[1].pc = "done"
    /\ run[2].pc = "done"


\* run r is past the reading of the file
ReadDone(r) ==
    /\ run[r].pc \notin {"idle", "testConnection", "readFile"}
    /\ ~(run[r].pc = "failed" /\ run[r].error.text \in
            {"Cannot connect to database", "Please upload a valid Excel file"})

\* C11: a sheet with fewer than 2 rows from the detected header row on makes
\* the run fail with the no-data-rows error, and the run issues no write.
C11_NoDataRowsFails ==
    \A r \in Runs :
        (ReadDone(r) /\ Len(sheet) - run[r].headerRowIndex < 2) =>
            /\ run[r].pc = "failed"
            /\ run[r].error.text = "Could not detect data rows in the Excel file."
            /\ ui.uploadStatus = ErrorStatus(run[r].error)
            /\ ~ui.uploading
            /\ run[r].writes = <<>>
            /\ store = EmptyStore

C11_Witness ==
    /\ sheet = <<HeaderWith(NumColumns)>>
    /\ run[1].pc = "failed"
    /\ run[1].error.text = "Could not detect data rows in the Excel file."
    /\ run[1].writes = <<>>


\* the rows of run r that carry the course code, and the first of them, in
\* file order, with a value in the column
RowsOfCode(r, code) ==
    {k \in 1..Len(run[r].records) :
        normalizeCourseCode(run[r].records[k][CourseCode]) = code}

FirstFilled(r, code, column) ==
    LET filled == {k \in RowsOfCode(r, code) : run[r].records[k][column] # <<>>}
    IN  IF filled = {} THEN <<>>
        ELSE run[r].records[CHOOSE k \in filled : \A j \in filled : k <= j][column]

\* the course codes of the batch of run r
CodesOfBatch(r) ==
    {normalizeCourseCode(run[r].records[k][CourseCode]) : k \in 1..Len(run[r].records)}
        \ {<<>>}

\* run r has validated its columns and collected its courses
Collected(r) ==
    run[r].pc \in {"checkCourses", "insertCourses", "upsertStudents", "getStudents",
                   "getCourses", "fallbackInsert", "refetch", "upsertGrades", "done"}

\* C12: the title captured for a course code is the first non-empty title
\* among the rows of that code, and a course record the run creates is named
\* by that title (by the code when no row has a title).
C12_FirstTitleCaptured ==
    \A r \in Runs :
        Collected(r) =>
            /\ DOMAIN run[r].courseMap = CodesOfBatch(r)
            /\ \A code \in CodesOfBatch(r) :
                   /\ run[r].courseMap[code].title = FirstFilled(r, code, CourseTitle)
                   /\ \A c \in store.courses :
                          c.code = code =>
                              c.name = IF FirstFilled(r, code, CourseTitle) # <<>>
                                       THEN FirstFilled(r, code, CourseTitle)
                                       ELSE code

C12_Witness ==
    /\ sheet = <<HeaderWith(NumColumns), RowF, RowA>>
    /\ run[1].pc = "done"
    /\ \E c \in store.courses : c.code = s21CSC204J /\ c.name = sTitle


\* C13: the credit value captured for a course code is the first non-empty
\* credit value among the rows of that code; an empty credits cell of an
\* earlier row does not keep a later row's credits from being captured.
C13_FirstCreditsCaptured ==
    \A r \in Runs :
        Collected(r) =>
            \A code \in CodesOfBatch(r) :
                run[r].courseMap[code].credits = FirstFilled(r, code, Credits)


\* C14: a course record created by a run is named by the title captured for
\* its code, or by the code when none was captured, and has the captured
\* credit value, or none (null) when none was captured.
C14_CreatedCourseDefaults ==
    \A r \in Runs :
        Collected(r) =>
            \A c \in store.courses :
                c.code \in CodesOfBatch(r) =>
                    /\ c.name = IF FirstFilled(r, c.code, CourseTitle) # <<>>
                                THEN FirstFilled(r, c.code, CourseTitle)
                                ELSE c.code
                    /\ c.credits = IF FirstFilled(r, c.code, Credits) # <<>>
                                   THEN FirstFilled(r, c.code, Credits)
                                   ELSE Undefined


\* C15: a course record that is in the store when the run starts keeps its
\* name, its title and its credits wherever they are known; the run changes
\* such a record at most where a title or credits are missing.
C15_ExistingCoursesKept ==
    \A c \in SeededStore.courses :
        \E d \in store.courses :
            /\ d.id = c.id
            /\ d.code = c.code
            /\ d.name = c.name
            /\ Truthy(c.title) => d.title = c.title
            /\ Truthy(c.credits) => d.credits = c.credits

\* the run sent a row for an existing course under another name, on the
\* normal path and on the fallback path, and ended
C15_Witness ==
    /\ run[1].pc = "done"
    /\ \E w \in 1..Len(run[1].writes) :
           /\ run[1].writes[w].table = "courses" /\ run[1].writes[w].ok
           /\ \E k \in 1..Len(run[1].writes[w].rows) :
                  /\ run[1].writes[w].rows[k].code = s21CSC204J
                  /\ run[1].writes[w].rows[k].name = sTitle
    /\ \E w \in 1..Len(run[1].writes) :
           /\ run[1].writes[w].table = "courses" /\ run[1].writes[w].ok
           /\ run[1].writes[w].rows = fallbackInsert(run[1].allCourseCodes)
    /\ \E d \in store.courses : d.code = s21CSC204J /\ d.name = sDAA


\* one step of run r from the course id fetch, the fallback insert or the
\* re-query
RetryStep(r) ==
    /\ run[r].pc = "getCourses" /\ run'[r].pc \notin {"getCourses", "failed"} =>
           (run'[r].pc = "fallbackInsert" <=>
               (DOMAIN run'[r].courseIdMap = {} /\ Len(run[r].allCourseCodes) > 0))
    /\ run[r].pc # "fallbackInsert" /\ run'[r].pc = "fallbackInsert" =>
           run[r].pc = "getCourses"
    /\ run[r].pc = "fallbackInsert" /\ run'[r] # run[r] =>
           /\ run'[r].pc \in {"refetch", "failed"}
           /\ Len(run'[r].writes) = Len(run[r].writes) + 1
           /\ run'[r].writes[Len(run'[r].writes)].table = "courses"
           /\ {row.code : row \in Range(run'[r].writes[Len(run'[r].writes)].rows)}
                  = Range(run[r].allCourseCodes)
           /\ run'[r].pc = "refetch" =>
                  \A code \in Range(run[r].allCourseCodes) :
                      \E c \in store'.courses : c.code = code
    /\ run[r].pc # "refetch" /\ run'[r].pc = "refetch" =>
           run[r].pc = "fallbackInsert"
    /\ run[r].pc = "refetch" /\ run'[r] # run[r] =>
           /\ run'[r].pc \in {"upsertGrades", "done"}
           /\ run'[r].writes = run[r].writes

\* C16: the run goes from the course id fetch to the fallback insert exactly
\* when the fetch returned no course for a non-empty set of codes; the
\* fallback insert sends every requested code and is followed by one
\* re-query, after which the run goes on without another retry.
C16_RetryOnce == [][\A r \in Runs : RetryStep(r)]_vars

C16_Witness ==
    /\ run[1].pc = "done"
    /\ \E w \in 1..Len(run[1].writes) :
           /\ run[1].writes[w].table = "courses" /\ run[1].writes[w].ok
           /\ run[1].writes[w].rows = fallbackInsert(run[1].allCourseCodes)
    /\ Len(run[1].grades.gradesToUpsert) > 0
    /\ Cardinality({w \in 1..Len(run[1].writes) : run[1].writes[w].table = "courses"}) <= 2


\* the first row of run r, in file order, with the trimmed register number
FirstRowOf(r, reg) ==
    CHOOSE k \in 1..Len(run[r].records) :
        /\ trim(run[r].records[k][RegisterNo]) = reg
        /\ \A j \in 1..(k - 1) : trim(run[r].records[j][RegisterNo]) # reg

\* C17: the student list a run upserts has one entry for every trimmed
\* register number of the file, no two entries with the same one, and each
\* entry carries the attributes of the first row with that register number.
C17_FirstStudentKept ==
    \A r \in Runs : \A w \in 1..Len(run[r].writes) :
        run[r].writes[w].table = "students" =>
            LET rows == run[r].writes[w].rows
            IN  /\ \A i, j \in 1..Len(rows) :
                       rows[i].register_number = rows[j].register_number => i = j
                /\ {rows[i].register_number : i \in 1..Len(rows)}
                       = {trim(run[r].records[k][RegisterNo]) : k \in 1..Len(run[r].records)}
                /\ \A i \in 1..Len(rows) :
                       LET first == run[r].records[FirstRowOf(r, rows[i].register_number)]
                       IN  /\ rows[i].name = first[StudentName]
                           /\ rows[i].semester = first[Semester]
                           /\ rows[i].batch = first[Batch]
                           /\ rows[i].degree = first[Degree]
                           /\ rows[i].office_name = first[OfficeName]
                           /\ rows[i].branch_of_study = first[BranchOfStudy]
                           /\ rows[i].graduation_type = first[GraduationType]

\* two rows with the register number R2, written with and without blanks and
\* under different names: the student upserted is the one of the first row
C17_Witness ==
    /\ sheet = <<HeaderWith(NumColumns), RowD, RowE>>
    /\ \E w \in 1..Len(run[1].writes) :
           /\ run[1].writes[w].table = "students"
           /\ run[1].writes[w].ok
           /\ Len(run[1].writes[w].rows) = 1
           /\ run[1].writes[w].rows[1].register_number = sR2
           /\ run[1].writes[w].rows[1].name = sBob


\* the grades upserts run r has issued, in order
GradeWrites(r) == SelectSeq(run[r].writes, LAMBDA w : w.table = "grades")

\* the j-th chunk of 500 of a list
ChunkOf(all, j) ==
    SubSeq(all, 500 * (j - 1) + 1, IF 500 * j <= Len(all) THEN 500 * j ELSE Len(all))

\* C18: the grades upserts of a run are the consecutive chunks of 500 of the
\* prepared list, in order; a run that ends well has issued ceil(n / 500) of
\* them, all of size 500 but the last, which has 1 to 500 rows, and they make
\* up the list; 1203 payloads give writes of 500, 500 and 203 rows.
C18_ChunksOfFiveHundred ==
    \A r \in Runs :
        LET all == run[r].grades.gradesToUpsert
            n == Len(all)
            gw == GradeWrites(r)
        IN  /\ \A j \in 1..Len(gw) : gw[j].rows = ChunkOf(all, j)
            /\ \A j \in 1..(Len(gw) - 1) : Len(gw[j].rows) = 500
            /\ Len(gw) > 0 => Len(gw[Len(gw)].rows) \in 1..500
            /\ run[r].pc = "upsertGrades" => 500 * Len(gw) < n
            /\ run[r].pc = "done" =>
                   /\ Len(gw) = (n + 499) \div 500
                   /\ 500 * (Len(gw) - 1) + (IF Len(gw) > 0 THEN Len(gw[Len(gw)].rows) ELSE 500) = n
                   /\ n = 1203 => [j \in 1..Len(gw) |-> Len(gw[j].rows)] = <<500, 500, 203>>

C18_Witness ==
    /\ run[1].pc = "done"
    /\ Len(run[1].grades.gradesToUpsert) = 1203
    /\ [j \in 1..Len(GradeWrites(1)) |-> Len(GradeWrites(1)[j].rows)] = <<500, 500, 203>>
    /\ Cardinality(store.grades) = 1203

\* a record of the store holds what the payload says
Committed(p) ==
    \E g \in store.grades :
        /\ g.student_id = p.student_id /\ g.course_id = p.course_id
        /\ g.grade = p.grade /\ g.is_passed = p.is_passed
        /\ g.mode_of_attempt = p.mode_of_attempt

\* run r failed in a grades upsert
FailedInGrades(r) ==
    run[r].pc = "failed" /\ run[r].error.text = "Error upserting grades batch"

\* C19: when the upsert of chunk k fails, it is the last write of the run,
\* the error shown names k, counted from 1, the rows of the chunks before k
\* are in the store, and the run and the store change no more.
C19_ChunkFailureStops ==
    /\ [](\A r \in Runs :
            FailedInGrades(r) =>
                LET gw == GradeWrites(r)
                    k == Len(gw)
                IN  /\ k >= 1
                    /\ run[r].writes[Len(run[r].writes)] = gw[k]
                    /\ ~gw[k].ok
                    /\ gw[k].rows = ChunkOf(run[r].grades.gradesToUpsert, k)
                    /\ run[r].error.n = k
                    /\ ui.uploadStatus = ErrorStatus(run[r].error)
                    /\ \A j \in 1..(k - 1) :
                           gw[j].ok /\ \A p \in Range(gw[j].rows) : Committed(p))
    /\ [][\A r \in Runs :
            FailedInGrades(r) => (run'[r] = run[r] /\ store' = store)]_vars

C19_Witness ==
    /\ FailedInGrades(1)
    /\ Len(run[1].grades.gradesToUpsert) = 1203
    /\ run[1].error.n = 2
    /\ Len(GradeWrites(1)) = 2
    /\ Cardinality({g \in store.grades : g.grade # <<"F">>}) > 400


\* the steps of a run whose store call the run depends on
RequiredSteps ==
    {"checkCourses", "insertCourses", "upsertStudents", "getStudents", "getCourses",
     "fallbackInsert", "refetch"}

\* C20: when the store call of a required step has returned an error the run
\* has stopped with an error shown to the user and reports no success, and
\* the rows written before the error are still in the store.
C20_StoreErrorStopsRun ==
    \A r \in Runs :
        (\E k \in 1..Len(run[r].errorAt) : run[r].errorAt[k] \in RequiredSteps) =>
            /\ run[r].pc = "failed"
            /\ ui.uploadStatus = ErrorStatus(run[r].error)
            /\ ui.uploadStatus.prefix = "Error: "
            /\ ~run[r].timer
            /\ \A w \in 1..Len(run[r].writes) :
                   (run[r].writes[w].ok /\ run[r].writes[w].table = "courses") =>
                       \A row \in Range(run[r].writes[w].rows) :
                           \E c \in store.courses : c.code = row.code

----------------------------------------------------------------------------
(* The terminal status of a run.                                           *)

RECURSIVE RowsWritten(_, _, _)
\* the number of rows of the accepted writes of run r to a table, from
\* write k on
RowsWritten(r, table, k) ==
    IF k > Len(run'[r].writes) THEN 0
    ELSE (IF run'[r].writes[k].ok /\ run'[r].writes[k].table = table
          THEN Len(run'[r].writes[k].rows) ELSE 0) + RowsWritten(r, table, k + 1)

\* the step in which run r ends
Ends(r) == run[r].pc \notin Terminal /\ run'[r].pc \in Terminal

EndsWell(r) ==
    /\ Ends(r) /\ run'[r].pc = "done"
    /\ ui'.uploadStatus =
           Status("Successfully processed students and grades",
                  RowsWritten(r, "students", 1), RowsWritten(r, "grades", 1))
    /\ RowsWritten(r, "students", 1) = Len(run'[r].uniqueStudents)

EndsBadly(r) ==
    /\ Ends(r) /\ run'[r].pc = "failed"
    /\ ui'.uploadStatus.prefix = "Error: "
    /\ ui'.uploadStatus = ErrorStatus(run'[r].error)

\* C21: a started run ends, it ends once (an ended run stays as it ended),
\* and the status set when it ends is the success message with N the number
\* of deduplicated students upserted and M the number of grade rows written,
\* or a message that begins with "Error: ".
C21_OneTerminalStatus ==
    /\ [][\A r \in Runs :
            /\ Ends(r) => (EndsWell(r) \/ EndsBadly(r))
            /\ run[r].pc \in Terminal => run'[r].pc = run[r].pc]_vars
    /\ \A r \in Runs : (run[r].pc # "idle") ~> (run[r].pc \in Terminal)

\* a run has ended well with fewer students than rows and grades written
C21_Witness ==
    /\ run[1].pc = "done"
    /\ Len(run[1].uniqueStudents) < Len(run[1].records)
    /\ Len(run[1].grades.gradesToUpsert) > 0
    /\ ui.uploadStatus = Status("Successfully processed students and grades",
                                Len(run[1].uniqueStudents),
                                Len(run[1].grades.gradesToUpsert))

----------------------------------------------------------------------------
(* The progress values a run reports.                                      *)

InRange(v) == v.den > 0 /\ 0 <= v.num /\ v.num <= 100 * v.den

Leq(a, b) == a.num * b.den <= b.num * a.den

\* C22: the values a run reports start at 0, lie in 0..100, never decrease,
\* and end with 100 when the run has succeeded; the component then shows 100
\* until the timer resets it.
C22_ProgressMonotonic ==
    \A r \in Runs :
        LET log == run[r].reported
        IN  /\ \A k \in 1..Len(log) : InRange(log[k])
            /\ \A k \in 1..(Len(log) - 1) : Leq(log[k], log[k + 1])
            /\ run[r].pc # "idle" => log[1] = Whole(0)
            /\ run[r].pc = "done" => log[Len(log)] = Whole(100)
            /\ run[r].timer => ui.progress = 100

\* a run has succeeded after three grade writes, having reported values
\* strictly between 70 and 90 and between 90 and 100
C22_Witness ==
    /\ run[1].pc = "done"
    /\ Len(GradeWrites(1)) = 3
    /\ \E k \in 1..Len(run[1].reported) :
           /\ ~Leq(run[1].reported[k], Whole(70))
           /\ ~Leq(Whole(90), run[1].reported[k])
    /\ \E k \in 1..Len(run[1].reported) :
           /\ ~Leq(run[1].reported[k], Whole(90))
           /\ ~Leq(Whole(100), run[1].reported[k])

----------------------------------------------------------------------------
(* The student identifier lookups.                                         *)

\* the register numbers of the deduplicated students, in list order
RegistersOf(r) ==
    [k \in 1..Len(run[r].uniqueStudents) |-> run[r].uniqueStudents[k].register_number]

RECURSIVE AskedBefore(_, _)
\* the number of register numbers asked for by the lookups before lookup k
AskedBefore(r, k) ==
    IF k <= 1 THEN 0
    ELSE AskedBefore(r, k - 1) + Len(run[r].lookups[k - 1].registerNumbers)

\* the student id loop of run r is over and every lookup returned its rows
LookupsDone(r) ==
    /\ run[r].pc \in {"getCourses", "fallbackInsert", "refetch", "upsertGrades", "done"}
    /\ Len(run[r].uniqueStudents) > 0
    /\ \A k \in 1..Len(run[r].lookups) : run[r].lookups[k].outcome = "ok"

\* C23: the lookups of a run, laid end to end, are the deduplicated register
\* numbers in list order, each lookup carrying between 1 and 100 of them, so
\* that each register number is asked for in exactly one lookup; when the
\* loop is over and every lookup returned its rows, the table maps the
\* trimmed register number of every upserted student in the store to the
\* identifier of that student.
C23_LookupBatches ==
    \A r \in Runs :
        LET log == run[r].lookups
            regs == RegistersOf(r)
        IN  /\ \A k \in 1..Len(log) :
                   /\ Len(log[k].registerNumbers) \in 1..batchSize
                   /\ AskedBefore(r, k) + Len(log[k].registerNumbers) <= Len(regs)
                   /\ log[k].registerNumbers =
                          SubSeq(regs, AskedBefore(r, k) + 1,
                                 AskedBefore(r, k) + Len(log[k].registerNumbers))
            /\ LookupsDone(r) =>
                   /\ AskedBefore(r, Len(log) + 1) = Len(regs)
                   /\ \A k \in 1..Len(regs) :
                          Cardinality({j \in 1..Len(log) :
                              regs[k] \in Range(log[j].registerNumbers)}) = 1
                   /\ \A x \in store.students :
                          x.register_number \in Range(regs) =>
                              MapGet(run[r].studentIdMap, trim(x.register_number)) = x.id

\* a run has looked up more than two full batches of students, all of them in
\* the store
C23_Witness ==
    /\ LookupsDone(1)
    /\ Len(run[1].lookups) = 3
    /\ Len(run[1].lookups[3].registerNumbers) = 1
    /\ Cardinality(DOMAIN run[1].studentIdMap) = MaxLookupStudents

----------------------------------------------------------------------------
(* The grade point mapping.                                                *)

\* the point mapping O=10, A+=9, A=8, B+=7, B=6, C+=5, C=4, D=3, F=0
NinePoints ==
    (<<"O">> :> 10) @@ (<<"A", "+">> :> 9) @@ (<<"A">> :> 8) @@ (<<"B", "+">> :> 7) @@
    (<<"B">> :> 6) @@ (<<"C", "+">> :> 5) @@ (<<"C">> :> 4) @@ (<<"D">> :> 3) @@
    (<<"F">> :> 0)

\* the enrollments whose token is one of the nine
Graded(enrollments) == SelectSeq(enrollments, LAMBDA e : e.grade \in DOMAIN NinePoints)

RECURSIVE SumOf(_, _)
SumOf(f, k) == IF k > Len(f) THEN 0 ELSE f[k] + SumOf(f, k + 1)

\* C24: the aggregates are those of the enrollments whose token is one of
\* the nine, under the point mapping: an enrollment with any other token adds
\* neither points nor credits to the GPA totals and is not counted in the
\* average.
C24_GradePointMapping ==
    (probe.op = "gpa" /\ probe.done) =>
        LET g == Graded(probe.enrollments)
        IN  /\ probe.result.total_points =
                   SumOf([k \in 1..Len(g) |-> g[k].credits * NinePoints[g[k].grade]], 1)
            /\ probe.result.total_credits = SumOf([k \in 1..Len(g) |-> g[k].credits], 1)
            /\ probe.average.sum = SumOf([k \in 1..Len(g) |-> NinePoints[g[k].grade]], 1)
            /\ probe.average.count = Len(g)

----------------------------------------------------------------------------
(* Course-code normalization.                                              *)

\* C25: normalizing a normalized course code changes nothing, and a
\* normalized code holds only the characters A-Z and 0-9.
C25_NormalizeIdempotent ==
    (probe.op = "normalize" /\ probe.done) =>
        /\ probe.twice = probe.once
        /\ \A i \in 1..Len(probe.once) : probe.once[i] \in UpperSet \cup Digits

\* a code with a blank, a lower-case letter and a sign has been normalized
C25_Witness ==
    /\ probe.op = "normalize" /\ probe.done
    /\ probe.code = <<" ", "a", "-">>
    /\ probe.once = <<"A">>

----------------------------------------------------------------------------
(* The pass flag as a function of the token.                               *)

\* C26: two rows whose trimmed grade token is the same are given the same
\* pass flag, whatever their students, courses and attempt modes and whatever
\* blanks surround the token in the cell; this holds of the current uploader
\* and of the earlier one.
C26_FlagDependsOnTokenOnly ==
    (probe.op = "pair" /\ probe.done) =>
        /\ Len(probe.payloads[1]) = 1
        /\ Len(probe.payloads[2]) = 1
        /\ probe.payloads[1][1].grade = probe.payloads[2][1].grade
        /\ probe.payloads[1][1].is_passed = probe.payloads[2][1].is_passed
        /\ probe.earlier[1] = probe.earlier[2]

\* the same failing token, written with blanks in one cell and without in
\* the other, classified for two students, courses and attempt modes
C26_Witness ==
    /\ probe.op = "pair" /\ probe.done
    /\ probe.rows[1].grade = <<" ">> \o <<"A", "b">>
    /\ probe.rows[2] = [student |-> 3, course |-> 4, grade |-> <<"A", "b">>, mode |-> sArrear]
    /\ ~probe.payloads[1][1].is_passed
    /\ ~probe.payloads[2][1].is_passed

----------------------------------------------------------------------------
(* The keys of the grade payloads of a run.                                *)

\* C27: no two grade payloads a run has prepared have the same student and
\* course identifiers, so no grades upsert carries two rows with the same
\* key.
C27_PayloadKeysDistinct ==
    \A r \in Runs :
        LET all == run[r].grades.gradesToUpsert
        IN  /\ \A i, j \in 1..Len(all) : GradeKey(all[i]) = GradeKey(all[j]) => i = j
            /\ \A w \in 1..Len(run[r].writes) :
                   run[r].writes[w].table = "grades" =>
                       ~hasDuplicateKeys(run[r].writes[w].rows)

\* a run that has been started and has not reached its terminal status
InProgress(r) == run[r].pc \notin ({"idle"} \cup Terminal)

\* handleFileSelect or handleDrop calls processExcelData for run r in this step
Starts(r) == run[r].pc = "idle" /\ run'[r].pc # "idle"

\* C28: at most one run of the component is in progress at a time: no step
\* starts a run, by a selection or by a drop, while uploading is true or while
\* another run has not reached its terminal status.
C28_OneRunAtATime ==
    [][\A r \in Runs :
          Starts(r) => /\ ~ui.uploading
                       /\ \A q \in Runs \ {r} : ~InProgress(q)]_vars

\* C29: while a run is in progress, before and after a step, the step leaves
\* uploading true and does not take the progress back to 0; the timer of an
\* earlier run that succeeded does not clear the state of a later run.
C29_RunKeepsItsState ==
    [][\A r \in Runs :
          (InProgress(r) /\ run'[r].pc \notin ({"idle"} \cup Terminal)) =>
              /\ ui'.uploading
              /\ ui.progress > 0 => ui'.progress > 0
              /\ \A q \in Runs \ {r} : ~HideSuccess(q)]_vars

\* C30: after the backfill a grade record's flag is the one ingestion gave its
\* token, in the current uploader and in the earlier one.
C30_BackfillAgreesWithIngestion ==
    (probe.op = "backfill" /\ probe.stage = "updated") =>
        \A i \in 1..Len(probe.rows) :
            /\ probe.rows[i].is_passed = probe.ingested
            /\ probe.rows[i].is_passed = probe.earlier



====
